---- MODULE Spec2Model ----
(***************************************************************************)
(* Backtest engine of the quant trading platform: the three strategies'    *)
(* run_backtest loops (backend/strategies/basic.py, momentum.py, value.py) *)
(* as one state machine.  One action is one iteration of a loop of the     *)
(* source (or the code before / after the loops).                          *)
(*                                                                         *)
(* Numbers.  The source computes in floats; the model computes the same    *)
(* expressions exactly, on integers:                                       *)
(*   - a price (close) is a whole number of currency units;                *)
(*   - money (cash, cost, proceeds, value, amount) is counted in 1/100 of  *)
(*     a currency unit;                                                    *)
(*   - a commission rate is a whole number of 1/CommDen (CommDen = 10000), *)
(*     so 0.0003 is 3;                                                     *)
(*   - trade_date strings "YYYYMMDD" are the integers YYYYMMDD (the order  *)
(*     of 8-digit strings is the order of the numbers).                    *)
(***************************************************************************)
EXTENDS Integers, Sequences, FiniteSets, TLC

\* Number of dates of the calendar that price data may use.
MaxDates == 4

\* Commission rates are multiples of 1/CommDen.
CommDen == 10000

\* Shares of one lot: position sizes are rounded down to whole lots.
LotSize == 100

\* Money units per currency unit, chosen so that the cost of a lot at a
\* whole price is a whole number of money units.
MoneyScale == CommDen \div LotSize

\* float('inf'): the value of a missing pe / pb column.
Inf == 1000000

\* Trading calendar the input data draws its dates from (crosses a month end
\* and a weekend, so calendar days differ from differences of the numbers).
Calendar == <<20240130, 20240131, 20240201, 20240202, 20240205, 20240206>>

AllDates == {Calendar[k] : k \in 1..MaxDates}

Closes == {50, 100}

Instruments == {"A", "B"}

(***************************************************************************)
(* Generic sequence helpers (Python list / dict / DataFrame operations).   *)
(***************************************************************************)
RECURSIVE SortedSeq(_)
\* sorted(list(set(...))): the ascending sequence of a finite set of numbers
SortedSeq(S) ==
    IF S = {} THEN <<>>
    ELSE LET m == CHOOSE x \in S : \A y \in S : x <= y
         IN <<m>> \o SortedSeq(S \ {m})

RECURSIVE Filter(_, _)
\* df[df.trade_date <op> date]: the bars of s whose index is in keep
Filter(s, keep) ==
    IF s = <<>> THEN <<>>
    ELSE IF keep[Head(s).trade_date]
         THEN <<Head(s)>> \o Filter(Tail(s), keep)
         ELSE Filter(Tail(s), keep)

\* DailyData falling back on the last bar before the date when the date has
\* no bar
DailyData_LastKnown(df, date) ==
    LET h == Filter(df, [d \in AllDates |-> d <= date])
    IN IF h = <<>> THEN <<>> ELSE <<h[Len(h)]>>

\* df[df['trade_date'] == date]
DailyData(df, date) == Filter(df, [d \in AllDates |-> d = date])

\* df[df['trade_date'] <= date]
HistoricalData(df, date) == Filter(df, [d \in AllDates |-> d <= date])

\* A dict is the sequence of its items, in insertion order.
DictHas(dict, key) == \E i \in 1..Len(dict) : dict[i].code = key

DictGet(dict, key) ==
    LET i == CHOOSE j \in 1..Len(dict) : dict[j].code = key
    IN dict[i].shares

\* dict[key] = value: in place when the key exists, else appended
DictSet(dict, key, value) ==
    IF DictHas(dict, key)
    THEN [i \in 1..Len(dict) |->
            IF dict[i].code = key THEN [code |-> key, shares |-> value]
            ELSE dict[i]]
    ELSE Append(dict, [code |-> key, shares |-> value])

\* floor(x * p / 100) for x >= 0, without forming x * p
Pct(x, p) == (x \div 100) * p + ((x % 100) * p) \div 100

(***************************************************************************)
(* MACrossStrategy.calculate_signals                                       *)
(***************************************************************************)
RECURSIVE WindowSum(_, _, _)
\* sum of the w closes ending at bar i (1-based), i >= w
WindowSum(df, i, w) ==
    IF w = 0 THEN 0 ELSE df[i].close + WindowSum(df, i - 1, w - 1)

\* rolling(window = w).mean() at bar i is NaN while fewer than w bars exist
MADefined(i, w) == i >= w

\* fast_ma < slow_ma at bar i; a comparison with NaN is False.
\* sum_f / fp < sum_s / sp  <=>  sum_f * sp < sum_s * fp
FastBelowSlow(df, i, fp, sp) ==
    /\ MADefined(i, fp) /\ MADefined(i, sp)
    /\ WindowSum(df, i, fp) * sp < WindowSum(df, i, sp) * fp

FastAboveSlow(df, i, fp, sp) ==
    /\ MADefined(i, fp) /\ MADefined(i, sp)
    /\ WindowSum(df, i, fp) * sp > WindowSum(df, i, sp) * fp

\* SignalAt that, while the slow average is still undefined at bar i, signals
\* on the change of the close from the previous bar
SignalAt_NoWarmUp(df, i, fp, sp) ==
    IF i < 2 THEN 0
    ELSE IF i < sp
         THEN (IF df[i].close > df[i - 1].close THEN 1
               ELSE IF df[i].close < df[i - 1].close THEN -1
               ELSE 0)
    ELSE IF FastBelowSlow(df, i - 1, fp, sp) /\ FastAboveSlow(df, i, fp, sp)
         THEN 1
    ELSE IF FastAboveSlow(df, i - 1, fp, sp) /\ FastBelowSlow(df, i, fp, sp)
         THEN -1
    ELSE 0

\* SignalAt whose sell branch tests fast > slow at bar i (the last comparison
\* reversed)
SignalAt_SellReversed(df, i, fp, sp) ==
    IF i < 2 THEN 0
    ELSE IF FastBelowSlow(df, i - 1, fp, sp) /\ FastAboveSlow(df, i, fp, sp)
         THEN 1
    ELSE IF FastAboveSlow(df, i - 1, fp, sp) /\ FastAboveSlow(df, i, fp, sp)
         THEN -1
    ELSE 0

\* SignalAt that also takes equal averages at the previous bar for a crossing
SignalAt_NonStrict(df, i, fp, sp) ==
    IF i < 2 THEN 0
    ELSE IF /\ MADefined(i - 1, fp) /\ MADefined(i - 1, sp)
            /\ ~FastAboveSlow(df, i - 1, fp, sp)
            /\ FastAboveSlow(df, i, fp, sp)
         THEN 1
    ELSE IF /\ MADefined(i - 1, fp) /\ MADefined(i - 1, sp)
            /\ ~FastBelowSlow(df, i - 1, fp, sp)
            /\ FastBelowSlow(df, i, fp, sp)
         THEN -1
    ELSE 0

\* the loop body of calculate_signals for bar i (1-based; the loop starts at
\* the second bar, the first bar keeps signal 0)
SignalAt(df, i, fp, sp) ==
    IF i < 2 THEN 0
    ELSE IF FastBelowSlow(df, i - 1, fp, sp) /\ FastAboveSlow(df, i, fp, sp)
         THEN 1
    ELSE IF FastAboveSlow(df, i - 1, fp, sp) /\ FastBelowSlow(df, i, fp, sp)
         THEN -1
    ELSE 0

\* the 'signal' column of calculate_signals(df)
calculate_signals(df, fp, sp) ==
    [i \in 1..Len(df) |-> SignalAt(df, i, fp, sp)]

(***************************************************************************)
(* datetime.strptime(date, "%Y%m%d") and the day difference of two dates   *)
(***************************************************************************)
IsLeap(y) == (y % 4 = 0 /\ y % 100 # 0) \/ y % 400 = 0

DaysInMonth(y, m) ==
    IF m = 2 THEN (IF IsLeap(y) THEN 29 ELSE 28)
    ELSE IF m \in {4, 6, 9, 11} THEN 30 ELSE 31

RECURSIVE DaysBeforeMonth(_, _)
DaysBeforeMonth(y, m) ==
    IF m = 1 THEN 0 ELSE DaysInMonth(y, m - 1) + DaysBeforeMonth(y, m - 1)

\* the proleptic Gregorian ordinal of the date YYYYMMDD
ToOrdinal(date) ==
    LET y == date \div 10000
        m == (date \div 100) % 100
        d == date % 100
        py == y - 1
    IN py * 365 + py \div 4 - py \div 100 + py \div 400
       + DaysBeforeMonth(y, m) + d

\* DaysBetween as the difference of the two dates read as numbers
DaysBetween_Numeric(last, current) == current - last

\* (current_date - last_date).days
DaysBetween(last, current) == ToOrdinal(current) - ToOrdinal(last)

(***************************************************************************)
(* MomentumStrategy.calculate_momentum and select_stocks                   *)
(***************************************************************************)
\* calculate_momentum taking the start price from the first bar of the whole
\* history instead of the first of its last lookback_period bars
calculate_momentum_FromFirst(hist, lookback) ==
    IF Len(hist) < lookback THEN [num |-> 0, den |-> 1]
    ELSE LET start_price == hist[1].close
             end_price == hist[Len(hist)].close
         IN [num |-> (end_price - start_price) * 100, den |-> start_price]

\* (end_price - start_price) / start_price * 100 as the fraction num / den;
\* 0 when the history is shorter than lookback_period
calculate_momentum(hist, lookback) ==
    IF Len(hist) < lookback THEN [num |-> 0, den |-> 1]
    ELSE LET start_price == hist[Len(hist) - lookback + 1].close
             end_price == hist[Len(hist)].close
         IN [num |-> (end_price - start_price) * 100, den |-> start_price]

\* a.num / a.den > b.num / b.den (denominators are positive prices)
ScoreGreater(a, b) == a.num * b.den > b.num * a.den

\* momentum_scores: (ts_code, momentum) of the instruments with enough
\* history, in the order of data.items()
RECURSIVE MomentumScores(_, _, _, _)
MomentumScores(cs, dat, date, lookback) ==
    IF cs = <<>> THEN <<>>
    ELSE LET historical_data == HistoricalData(dat[Head(cs)], date)
         IN (IF Len(historical_data) >= lookback
             THEN <<[code |-> Head(cs),
                     momentum |-> calculate_momentum(historical_data,
                                                     lookback)]>>
             ELSE <<>>)
            \o MomentumScores(Tail(cs), dat, date, lookback)

\* SortByMomentum without reverse = True: ascending and stable
SortByMomentum_Ascending(scores) ==
    LET n == Len(scores)
        Before(i, j) ==
            \/ ScoreGreater(scores[j].momentum, scores[i].momentum)
            \/ /\ ~ScoreGreater(scores[i].momentum, scores[j].momentum)
               /\ i < j
        Rank(i) == 1 + Cardinality({j \in 1..n : j # i /\ Before(j, i)})
    IN [r \in 1..n |-> scores[CHOOSE i \in 1..n : Rank(i) = r]]

\* list.sort(key = momentum, reverse = True): descending and stable
SortByMomentum(scores) ==
    LET n == Len(scores)
        Before(i, j) ==
            \/ ScoreGreater(scores[i].momentum, scores[j].momentum)
            \/ /\ ~ScoreGreater(scores[j].momentum, scores[i].momentum)
               /\ i < j
        Rank(i) == 1 + Cardinality({j \in 1..n : j # i /\ Before(j, i)})
    IN [r \in 1..n |-> scores[CHOOSE i \in 1..n : Rank(i) = r]]

\* MomentumStrategy.select_stocks
SelectMomentum(cs, dat, date, lookback, top_n) ==
    LET sorted == SortByMomentum(MomentumScores(cs, dat, date, lookback))
        k == IF top_n < Len(sorted) THEN top_n ELSE Len(sorted)
    IN [i \in 1..k |-> sorted[i].code]

(***************************************************************************)
(* ValueStrategy.select_stocks                                             *)
(***************************************************************************)
\* pe and pb of a bar; a missing (inf) value is replaced by the value the
\* generator seeded with the instrument code yields
EffectivePE(bar, seed) == IF bar.pe = Inf THEN seed.pe ELSE bar.pe

EffectivePB(bar, seed) == IF bar.pb = Inf THEN seed.pb ELSE bar.pb

RECURSIVE SelectValue_Strict(_, _, _, _, _, _)
\* SelectValue comparing with < instead of <=
SelectValue_Strict(cs, dat, date, seeds, max_pe, max_pb) ==
    IF cs = <<>> THEN <<>>
    ELSE LET ts_code == Head(cs)
             daily_data == DailyData(dat[ts_code], date)
         IN (IF /\ daily_data # <<>>
                /\ EffectivePE(daily_data[1], seeds[ts_code]) < max_pe
                /\ EffectivePB(daily_data[1], seeds[ts_code]) < max_pb
             THEN <<ts_code>> ELSE <<>>)
            \o SelectValue_Strict(Tail(cs), dat, date, seeds, max_pe, max_pb)

RECURSIVE SelectValue(_, _, _, _, _, _)
SelectValue(cs, dat, date, seeds, max_pe, max_pb) ==
    IF cs = <<>> THEN <<>>
    ELSE LET ts_code == Head(cs)
             daily_data == DailyData(dat[ts_code], date)
         IN (IF /\ daily_data # <<>>
                /\ EffectivePE(daily_data[1], seeds[ts_code]) <= max_pe
                /\ EffectivePB(daily_data[1], seeds[ts_code]) <= max_pb
             THEN <<ts_code>> ELSE <<>>)
            \o SelectValue(Tail(cs), dat, date, seeds, max_pe, max_pb)

(***************************************************************************)
(* Ledger arithmetic shared by the three run_backtest bodies               *)
(***************************************************************************)
\* MaxSharesMA without the rounding down to whole lots of 100
MaxSharesMA_NoLots(cash_, price, commission_) ==
    (Pct(cash_, 95) * 10) \div ((price * (CommDen + commission_)) \div 10)

\* MaxSharesMA with a safety fraction of 0.9 instead of 0.95
MaxSharesMA_Safety90(cash_, price, commission_) ==
    (Pct(cash_, 90) \div (price * (CommDen + commission_))) * LotSize

\* int((cash * 0.95) / (price * (1 + commission)) / 100) * 100
\* One lot costs price * (CommDen + commission) money units.
MaxSharesMA(cash_, price, commission_) ==
    (Pct(cash_, 95) \div (price * (CommDen + commission_))) * LotSize

\* MaxSharesRebalance sized on the whole cash instead of the per-instrument
\* share cash / n
MaxSharesRebalance_WholeCash(psc, price, commission_) ==
    (Pct(psc.cash, 99) \div (price * (CommDen + commission_))) * LotSize

\* int((per_stock_capital * 0.99) / (price * (1 + commission)) / 100) * 100
\* with per_stock_capital = cash / n
MaxSharesRebalance(psc, price, commission_) ==
    (Pct(psc.cash, 99) \div (psc.n * price * (CommDen + commission_)))
    * LotSize

\* shares * current_price, the 'amount' of a transaction
Amount(shares, price) == shares * price * MoneyScale

\* shares * current_price * commission, the 'commission' of a transaction
\* (exact: shares is a whole number of lots and CommDen / MoneyScale is the
\* lot size)
CommissionOf(shares, price, commission_) ==
    (shares * price * commission_) \div (CommDen \div MoneyScale)

\* max_shares * current_price * (1 + commission)
Cost(shares, price, commission_) ==
    Amount(shares, price) + CommissionOf(shares, price, commission_)

\* Proceeds crediting the whole amount of the sale, the commission not
\* deducted
Proceeds_NoCommission(shares, price, commission_) == Amount(shares, price)

\* shares * current_price * (1 - commission)
Proceeds(shares, price, commission_) ==
    Amount(shares, price) - CommissionOf(shares, price, commission_)

\* the transaction dict of a buy ("买入") or a sell ("卖出")
Transaction(date, code, action, price, volume, commission_) ==
    [date |-> date, code |-> code, action |-> action, price |-> price,
     volume |-> volume, amount |-> Amount(volume, price),
     commission |-> CommissionOf(volume, price, commission_)]

RECURSIVE HeldValue_FirstBar(_, _, _)
\* HeldValue pricing a held instrument at the first bar of its DataFrame
\* instead of the bar of the date
HeldValue_FirstBar(pos, dat, date) ==
    IF pos = <<>> THEN 0
    ELSE LET p == Head(pos)
             daily_data == DailyData(dat[p.code], date)
         IN (IF p.shares > 0 /\ daily_data # <<>>
             THEN Amount(p.shares, dat[p.code][1].close) ELSE 0)
            + HeldValue_FirstBar(Tail(pos), dat, date)

RECURSIVE HeldValue(_, _, _)
\* sum of shares * close over the held instruments that have a bar on date
HeldValue(pos, dat, date) ==
    IF pos = <<>> THEN 0
    ELSE LET p == Head(pos)
             daily_data == DailyData(dat[p.code], date)
         IN (IF p.shares > 0 /\ daily_data # <<>>
             THEN Amount(p.shares, daily_data[1].close) ELSE 0)
            + HeldValue(Tail(pos), dat, date)

\* PortfolioValue that counts the cash only
PortfolioValue_CashOnly(cash_, pos, dat, date) == cash_

\* portfolio_value of a date: cash plus the value of the held instruments
PortfolioValue(cash_, pos, dat, date) == cash_ + HeldValue(pos, dat, date)

RECURSIVE CurrentPositions(_, _, _)
\* the 'positions' list of a date's snapshot
CurrentPositions(pos, dat, date) ==
    IF pos = <<>> THEN <<>>
    ELSE LET p == Head(pos)
             daily_data == DailyData(dat[p.code], date)
         IN (IF p.shares > 0 /\ daily_data # <<>>
             THEN <<[code |-> p.code, shares |-> p.shares,
                     price |-> daily_data[1].close,
                     value |-> Amount(p.shares, daily_data[1].close)]>>
             ELSE <<>>)
            \o CurrentPositions(Tail(pos), dat, date)

(***************************************************************************)
(* Input data                                                              *)
(***************************************************************************)
\* last_rebalance_date = None
NoDate == 0

\* no call of run_backtest has returned yet
NoCall == <<>>

\* A column of closes over the first n dates of the calendar; 0 marks a date
\* without a bar.
Columns(n) == [1..n -> {0} \cup Closes]

MissingBars(col) == {k \in DOMAIN col : col[k] = 0}

RECURSIVE BarsFrom(_, _, _)
\* the DataFrame of a column: its bars in ascending date order
BarsFrom(col, val, k) ==
    IF k > Len(col) THEN <<>>
    ELSE (IF col[k] = 0 THEN <<>>
          ELSE <<[trade_date |-> Calendar[k], close |-> col[k],
                  pe |-> val.pe, pb |-> val.pb]>>)
         \o BarsFrom(col, val, k + 1)

\* pe / pb columns absent
NoValuation == [pe |-> Inf, pb |-> Inf]

\* Price tables over n dates: the key order of the mapping and one column
\* per key.  An instrument misses no bar or one bar, or instruments are
\* empty.
EmptyColumn(n) == [k \in 1..n |-> 0]

FullColumns(n) == {col \in Columns(n) : MissingBars(col) = {}}

OneGapColumns(n) == {col \in Columns(n) : Cardinality(MissingBars(col)) = 1}

Tables(n) ==
    {[codes |-> <<>>, cols |-> <<>>]}
    \cup {[codes |-> <<"A">>, cols |-> <<c>>] :
            c \in FullColumns(n) \cup OneGapColumns(n) \cup {EmptyColumn(n)}}
    \cup {[codes |-> <<"A", "B">>, cols |-> <<a, b>>] :
            a \in FullColumns(n) \cup {EmptyColumn(n)},
            b \in FullColumns(n) \cup {EmptyColumn(n)}}
    \cup {[codes |-> <<"A", "B">>, cols |-> <<a, b>>] :
            a \in OneGapColumns(n),
            b \in FullColumns(n) \cup OneGapColumns(n)}
    \cup {[codes |-> <<"A", "B">>, cols |-> <<a, b>>] :
            a \in FullColumns(n), b \in OneGapColumns(n)}

\* the mapping {ts_code: DataFrame} of a table
DataOf(t, vals) ==
    [c \in {t.codes[i] : i \in 1..Len(t.codes)} |->
        LET i == CHOOSE j \in 1..Len(t.codes) : t.codes[j] = c
        IN BarsFrom(t.cols[i], vals[c], 1)]

(***************************************************************************)
(* State                                                                   *)
(***************************************************************************)
VARIABLES
    strategy,            \* "ma" | "momentum" | "value": whose run_backtest runs
    params,              \* self.params
    codes,               \* key order of the mapping 'data'
    data,                \* data: ts_code -> DataFrame (sequence of bars)
    seeded,              \* ts_code -> the pe / pb the seeded generator yields
    initial_capital,     \* argument
    commission,          \* argument
    pc,                  \* position in run_backtest
    result,              \* the result dict (a record); <<>> before it exists
    ledger_created,      \* TRUE once cash and positions exist
    cash,                \* local cash
    positions,           \* local dict positions, as its item sequence
    last_rebalance_date, \* local (NoDate is None)
    dates,               \* local dates / all_dates
    start_date,          \* local of MomentumStrategy.run_backtest
    di,                  \* index into dates of the date being processed
    ii,                  \* index of the inner loop
    items,               \* list(positions.items()) the sell loop walks
    selected_stocks,     \* local
    per_stock_capital,   \* local: [cash, n] for cash / n
    daily_transactions,  \* local
    frame,               \* the DataFrame df of a calculate_signals call
    earlier,             \* how an earlier, identical call ended (NoCall: none)
    prices,              \* argument of calculate_returns / calculate_drawdowns
    returns,             \* local of calculate_returns
    drawdowns,           \* local of calculate_drawdowns
    max_price            \* local of calculate_drawdowns

vars == <<strategy, params, codes, data, seeded, initial_capital, commission,
          pc, result, ledger_created, cash, positions, last_rebalance_date,
          dates, start_date, di, ii, items, selected_stocks,
          per_stock_capital, daily_transactions, frame, earlier, prices,
          returns, drawdowns, max_price>>

\* what no statement of run_backtest assigns
inputs == <<strategy, params, codes, data, seeded, initial_capital, commission,
            frame, earlier, prices, returns, drawdowns, max_price>>

(***************************************************************************)
(* Initial states: a strategy object, its parameters and the arguments of  *)
(* one run_backtest call, before the call's first statement.               *)
(***************************************************************************)
\* no call of calculate_returns or calculate_drawdowns is in progress
NoSeries ==
    /\ prices = <<>>
    /\ returns = <<>>
    /\ drawdowns = <<>>
    /\ max_price = 0

\* (initial_capital, commission): 100000 or 0 currency units, 0.0003 or 0
Arguments ==
    {[initial_capital |-> 10000000, commission |-> 3],
     [initial_capital |-> 10000000, commission |-> 0],
     [initial_capital |-> 0, commission |-> 3]}

MAParams == {[fast_period |-> 1, slow_period |-> 2]}

NoSeeds == [c \in Instruments |-> NoValuation]

InitLocals ==
    /\ pc = "not_started"
    /\ result = <<>>
    /\ ledger_created = FALSE
    /\ cash = 0
    /\ positions = <<>>
    /\ last_rebalance_date = NoDate
    /\ dates = <<>>
    /\ start_date = NoDate
    /\ di = 0
    /\ ii = 0
    /\ items = <<>>
    /\ selected_stocks = <<>>
    /\ per_stock_capital = [cash |-> 0, n |-> 1]
    /\ daily_transactions = <<>>
    /\ frame = <<>>
    /\ earlier = NoCall
    /\ NoSeries

InitMA ==
    /\ strategy = "ma"
    /\ params \in MAParams
    /\ \E t \in Tables(MaxDates) :
        /\ codes = t.codes
        /\ data = DataOf(t, NoSeeds)
    /\ seeded = NoSeeds
    /\ \E a \in Arguments :
        /\ initial_capital = a.initial_capital
        /\ commission = a.commission
    /\ InitLocals

\* (lookback_period, top_n, holding_period)
MomentumParams ==
    {[lookback_period |-> 2, top_n |-> 1, holding_period |-> 1],
     [lookback_period |-> 2, top_n |-> 2, holding_period |-> 1],
     [lookback_period |-> 1, top_n |-> 1, holding_period |-> 2],
     [lookback_period |-> 1, top_n |-> 2, holding_period |-> 2]}

InitMomentum ==
    /\ strategy = "momentum"
    /\ params \in MomentumParams
    /\ \E t \in Tables(MaxDates - 1) :
        /\ codes = t.codes
        /\ data = DataOf(t, NoSeeds)
    /\ seeded = NoSeeds
    /\ \E a \in Arguments :
        /\ initial_capital = a.initial_capital
        /\ commission = a.commission
    /\ InitLocals

\* max_pe = 15 and max_pb = 1.5 are the defaults; pb is counted in tenths
ValueParams ==
    {[max_pe |-> 15, max_pb |-> 15, rebalance_period |-> 1],
     [max_pe |-> 15, max_pb |-> 15, rebalance_period |-> 2]}

\* pe / pb columns of the two instruments (constant over an instrument's
\* bars), and what the seeded generator yields for each code
AtThreshold == [pe |-> 15, pb |-> 15]

AbovePE == [pe |-> 16, pb |-> 15]

AbovePB == [pe |-> 15, pb |-> 16]

SeedPass == [pe |-> 10, pb |-> 10]

SeedFail == [pe |-> 20, pb |-> 30]

Valuations ==
    {[vals |-> [A |-> AtThreshold, B |-> AbovePE],
      seeds |-> [A |-> SeedPass, B |-> SeedFail]],
     [vals |-> [A |-> AbovePB, B |-> AtThreshold],
      seeds |-> [A |-> SeedPass, B |-> SeedFail]],
     [vals |-> [A |-> AtThreshold, B |-> NoValuation],
      seeds |-> [A |-> SeedFail, B |-> SeedPass]],
     [vals |-> [A |-> NoValuation, B |-> NoValuation],
      seeds |-> [A |-> SeedFail, B |-> SeedPass]]}

InitValue ==
    /\ strategy = "value"
    /\ params \in ValueParams
    /\ \E t \in Tables(MaxDates - 1), v \in Valuations :
        /\ codes = t.codes
        /\ data = DataOf(t, v.vals)
        /\ seeded = v.seeds
    /\ \E a \in Arguments :
        /\ a.initial_capital > 0
        /\ initial_capital = a.initial_capital
        /\ commission = a.commission
    /\ InitLocals

Init == InitMA \/ InitMomentum \/ InitValue

(***************************************************************************)
(* run_backtest up to the date loop                                        *)
(***************************************************************************)
\* TradeDates taking the dates of one DataFrame only instead of the union
TradeDates_FirstOnly(dat) ==
    LET c == CHOOSE x \in DOMAIN dat : TRUE
    IN {dat[c][i].trade_date : i \in 1..Len(dat[c])}

\* the trade dates of every DataFrame, as a set
TradeDates(dat) ==
    UNION {{dat[c][i].trade_date : i \in 1..Len(dat[c])} : c \in DOMAIN dat}

\* SufficientData satisfied as soon as one instrument has lookback_period bars
SufficientData_AnyInstrument(dat, date, lookback) ==
    \E c \in DOMAIN dat : Len(HistoricalData(dat[c], date)) >= lookback

\* MomentumStrategy.run_backtest: every instrument has lookback_period bars
\* with trade_date <= date
SufficientData(dat, date, lookback) ==
    \A c \in DOMAIN dat : Len(HistoricalData(dat[c], date)) >= lookback

\* the first date of all_dates with sufficient data, NoDate when the scan
\* ends without a break
FirstSufficient(dat, all_dates, lookback) ==
    LET ok == {i \in 1..Len(all_dates) :
                 SufficientData(dat, all_dates[i], lookback)}
    IN IF ok = {} THEN NoDate
       ELSE all_dates[CHOOSE i \in ok : \A j \in ok : i <= j]

\* NewResult with final_capital initialised to 0 instead of initial_capital
NewResult_ZeroFinal ==
    [initial_capital |-> initial_capital, final_capital |-> 0,
     returns |-> <<>>, positions |-> <<>>, transactions |-> <<>>]

NewResult ==
    [initial_capital |-> initial_capital, final_capital |-> initial_capital,
     returns |-> <<>>, positions |-> <<>>, transactions |-> <<>>]

\* StartEmpty adding the error to a freshly initialised result
StartEmpty_WithDefaults ==
    /\ pc = "not_started"
    /\ codes = <<>>
    /\ result' = [error |-> "no data"] @@ NewResult
    /\ pc' = "done"
    /\ UNCHANGED <<inputs, ledger_created, cash, positions,
                   last_rebalance_date, dates, start_date, di, ii, items,
                   selected_stocks, per_stock_capital, daily_transactions>>

\* "if not data: return {error}"
StartEmpty ==
    /\ pc = "not_started"
    /\ codes = <<>>
    /\ result' = [error |-> "no data"]
    /\ pc' = "done"
    /\ UNCHANGED <<inputs, ledger_created, cash, positions,
                   last_rebalance_date, dates, start_date, di, ii, items,
                   selected_stocks, per_stock_capital, daily_transactions>>

\* the code between "if not data" and the date loop
Start ==
    /\ pc = "not_started"
    /\ codes # <<>>
    /\ LET all_dates == SortedSeq(TradeDates(data))
           first == IF strategy = "momentum"
                    THEN FirstSufficient(data, all_dates, params.lookback_period)
                    ELSE NoDate
       IN /\ cash' = initial_capital
          /\ positions' = <<>>
          /\ ledger_created' = TRUE
          /\ last_rebalance_date' = NoDate
          /\ dates' = all_dates
          /\ IF strategy = "momentum" /\ first = NoDate
             THEN /\ result' = [error |-> "insufficient history"]
                  /\ pc' = "done"
                  /\ UNCHANGED <<start_date, di>>
             ELSE /\ result' = NewResult
                  /\ start_date' = first
                  /\ di' = 1
                  /\ pc' = "date"
    /\ UNCHANGED <<inputs, ii, items, selected_stocks, per_stock_capital,
                   daily_transactions>>

(***************************************************************************)
(* MACrossStrategy.run_backtest: the date loop                             *)
(***************************************************************************)
\* head of an iteration of "for date in dates"
BeginDateMA ==
    /\ pc = "date"
    /\ strategy = "ma"
    /\ di <= Len(dates)
    /\ daily_transactions' = <<>>
    /\ ii' = 1
    /\ pc' = "trade"
    /\ UNCHANGED <<inputs, result, ledger_created, cash, positions,
                   last_rebalance_date, dates, start_date, di, items,
                   selected_stocks, per_stock_capital>>

\* BuyMA recording the trade also when max_shares is 0
BuyMA_RecordsZero(ts_code, date, current_price) ==
    LET max_shares == MaxSharesMA(cash, current_price, commission)
    IN /\ cash' = cash - Cost(max_shares, current_price, commission)
       /\ positions' =
            IF DictHas(positions, ts_code)
            THEN DictSet(positions, ts_code,
                         DictGet(positions, ts_code) + max_shares)
            ELSE DictSet(positions, ts_code, max_shares)
       /\ daily_transactions' =
            Append(daily_transactions,
                   Transaction(date, ts_code, "buy", current_price,
                               max_shares, commission))

\* the buy branch
BuyMA(ts_code, date, current_price) ==
    LET max_shares == MaxSharesMA(cash, current_price, commission)
    IN IF max_shares > 0
       THEN /\ cash' = cash - Cost(max_shares, current_price, commission)
            /\ positions' =
                 IF DictHas(positions, ts_code)
                 THEN DictSet(positions, ts_code,
                              DictGet(positions, ts_code) + max_shares)
                 ELSE DictSet(positions, ts_code, max_shares)
            /\ daily_transactions' =
                 Append(daily_transactions,
                        Transaction(date, ts_code, "buy", current_price,
                                    max_shares, commission))
       ELSE UNCHANGED <<cash, positions, daily_transactions>>

\* SellMA that credits the cash but leaves the share count as it was
SellMA_KeepPosition(ts_code, date, current_price) ==
    LET shares == DictGet(positions, ts_code)
    IN /\ cash' = cash + Proceeds(shares, current_price, commission)
       /\ positions' = positions
       /\ daily_transactions' =
            Append(daily_transactions,
                   Transaction(date, ts_code, "sell", current_price, shares,
                               commission))

\* the sell branch
SellMA(ts_code, date, current_price) ==
    LET shares == DictGet(positions, ts_code)
    IN /\ cash' = cash + Proceeds(shares, current_price, commission)
       /\ positions' = DictSet(positions, ts_code, 0)
       /\ daily_transactions' =
            Append(daily_transactions,
                   Transaction(date, ts_code, "sell", current_price, shares,
                               commission))

\* TradeMA walking the mapping from its last key to its first
TradeMA_ReverseOrder ==
    /\ pc = "trade"
    /\ strategy = "ma"
    /\ LET ts_code == codes[Len(codes) + 1 - ii]
           date == dates[di]
           df == data[ts_code]
           daily_data == DailyData(df, date)
           hist == HistoricalData(df, date)
           signals_df == calculate_signals(hist, params.fast_period,
                                           params.slow_period)
       IN IF daily_data = <<>> \/ signals_df = <<>>
          THEN UNCHANGED <<cash, positions, daily_transactions>>
          ELSE LET current_signal == signals_df[Len(signals_df)]
                   current_price == daily_data[1].close
               IN IF current_signal = 1 /\ cash > 0
                  THEN BuyMA(ts_code, date, current_price)
                  ELSE IF /\ current_signal = -1
                          /\ DictHas(positions, ts_code)
                          /\ DictGet(positions, ts_code) > 0
                  THEN SellMA(ts_code, date, current_price)
                  ELSE UNCHANGED <<cash, positions, daily_transactions>>
    /\ ii' = ii + 1
    /\ pc' = IF ii = Len(codes) THEN "record" ELSE "trade"
    /\ UNCHANGED <<inputs, result, ledger_created, last_rebalance_date,
                   dates, start_date, di, items, selected_stocks,
                   per_stock_capital>>

\* one iteration of "for ts_code, df in data.items()"
TradeMA ==
    /\ pc = "trade"
    /\ strategy = "ma"
    /\ LET ts_code == codes[ii]
           date == dates[di]
           df == data[ts_code]
           daily_data == DailyData(df, date)
           hist == HistoricalData(df, date)
           signals_df == calculate_signals(hist, params.fast_period,
                                           params.slow_period)
       IN IF daily_data = <<>> \/ signals_df = <<>>
          THEN UNCHANGED <<cash, positions, daily_transactions>>
          ELSE LET current_signal == signals_df[Len(signals_df)]
                   current_price == daily_data[1].close
               IN IF current_signal = 1 /\ cash > 0
                  THEN BuyMA(ts_code, date, current_price)
                  ELSE IF /\ current_signal = -1
                          /\ DictHas(positions, ts_code)
                          /\ DictGet(positions, ts_code) > 0
                  THEN SellMA(ts_code, date, current_price)
                  ELSE UNCHANGED <<cash, positions, daily_transactions>>
    /\ ii' = ii + 1
    /\ pc' = IF ii = Len(codes) THEN "record" ELSE "trade"
    /\ UNCHANGED <<inputs, result, ledger_created, last_rebalance_date,
                   dates, start_date, di, items, selected_stocks,
                   per_stock_capital>>

(***************************************************************************)
(* MomentumStrategy.run_backtest and ValueStrategy.run_backtest: the date  *)
(* loop (the two bodies differ in the skipped dates, the period parameter  *)
(* and select_stocks)                                                      *)
(***************************************************************************)
Rebalancing == strategy \in {"momentum", "value"}

Period ==
    IF strategy = "momentum" THEN params.holding_period
    ELSE params.rebalance_period

\* need_rebalance
NeedRebalance(last, date, period) ==
    \/ last = NoDate
    \/ DaysBetween(last, date) >= period

\* self.select_stocks(data, date)
select_stocks(date) ==
    IF strategy = "momentum"
    THEN SelectMomentum(codes, data, date, params.lookback_period,
                        params.top_n)
    ELSE SelectValue(codes, data, date, seeded, params.max_pe, params.max_pb)

\* SkipDate that goes back to the head of the loop without moving to the next
\* date
SkipDate_NoAdvance ==
    /\ pc = "date"
    /\ strategy = "momentum"
    /\ di <= Len(dates)
    /\ dates[di] < start_date
    /\ di' = di
    /\ UNCHANGED <<inputs, pc, result, ledger_created, cash, positions,
                   last_rebalance_date, dates, start_date, ii, items,
                   selected_stocks, per_stock_capital, daily_transactions>>

\* Momentum: "if date < start_date: continue"
SkipDate ==
    /\ pc = "date"
    /\ strategy = "momentum"
    /\ di <= Len(dates)
    /\ dates[di] < start_date
    /\ di' = di + 1
    /\ UNCHANGED <<inputs, pc, result, ledger_created, cash, positions,
                   last_rebalance_date, dates, start_date, ii, items,
                   selected_stocks, per_stock_capital, daily_transactions>>

\* head of an iteration of "for date in all_dates": the rebalance decision
BeginDateRebalance ==
    /\ pc = "date"
    /\ Rebalancing
    /\ di <= Len(dates)
    /\ strategy = "momentum" => dates[di] >= start_date
    /\ daily_transactions' = <<>>
    /\ IF NeedRebalance(last_rebalance_date, dates[di], Period)
       THEN /\ items' = positions
            /\ ii' = 1
            /\ pc' = IF positions = <<>> THEN "select" ELSE "sell"
       ELSE /\ pc' = "record"
            /\ UNCHANGED <<items, ii>>
    /\ UNCHANGED <<inputs, result, ledger_created, cash, positions,
                   last_rebalance_date, dates, start_date, di,
                   selected_stocks, per_stock_capital>>

\* SellRebalance that credits the cash and records the sale but leaves the
\* share count as it was
SellRebalance_KeepPosition ==
    /\ pc = "sell"
    /\ LET ts_code == items[ii].code
           shares == items[ii].shares
           date == dates[di]
           daily_data == DailyData(data[ts_code], date)
       IN IF shares > 0 /\ daily_data # <<>>
          THEN LET current_price == daily_data[1].close
               IN /\ cash' = cash + Proceeds(shares, current_price, commission)
                  /\ daily_transactions' =
                       Append(daily_transactions,
                              Transaction(date, ts_code, "sell",
                                          current_price, shares, commission))
                  /\ positions' = positions
          ELSE UNCHANGED <<cash, positions, daily_transactions>>
    /\ ii' = ii + 1
    /\ pc' = IF ii = Len(items) THEN "select" ELSE "sell"
    /\ UNCHANGED <<inputs, result, ledger_created, last_rebalance_date,
                   dates, start_date, di, items, selected_stocks,
                   per_stock_capital>>

\* one iteration of "for ts_code, shares in list(positions.items())"
SellRebalance ==
    /\ pc = "sell"
    /\ LET ts_code == items[ii].code
           shares == items[ii].shares
           date == dates[di]
           daily_data == DailyData(data[ts_code], date)
       IN IF shares > 0 /\ daily_data # <<>>
          THEN LET current_price == daily_data[1].close
               IN /\ cash' = cash + Proceeds(shares, current_price, commission)
                  /\ daily_transactions' =
                       Append(daily_transactions,
                              Transaction(date, ts_code, "sell",
                                          current_price, shares, commission))
                  /\ positions' = DictSet(positions, ts_code, 0)
          ELSE UNCHANGED <<cash, positions, daily_transactions>>
    /\ ii' = ii + 1
    /\ pc' = IF ii = Len(items) THEN "select" ELSE "sell"
    /\ UNCHANGED <<inputs, result, ledger_created, last_rebalance_date,
                   dates, start_date, di, items, selected_stocks,
                   per_stock_capital>>

\* Select whose Value fallback draws pe from the generator without seeding it
\* with the instrument code, so a later call draws other values
Select_Unseeded ==
    /\ pc = "select"
    /\ LET drawn == IF earlier = NoCall THEN seeded
                    ELSE [c \in Instruments |->
                            [pe |-> seeded[c].pe + 10, pb |-> seeded[c].pb]]
           selected ==
               IF strategy = "momentum" THEN select_stocks(dates[di])
               ELSE SelectValue(codes, data, dates[di], drawn, params.max_pe,
                                params.max_pb)
       IN /\ selected_stocks' = selected
          /\ IF selected # <<>>
             THEN /\ per_stock_capital' = [cash |-> cash, n |-> Len(selected)]
                  /\ ii' = 1
                  /\ pc' = "buy"
                  /\ UNCHANGED last_rebalance_date
             ELSE /\ last_rebalance_date' = dates[di]
                  /\ pc' = "record"
                  /\ UNCHANGED <<per_stock_capital, ii>>
    /\ UNCHANGED <<inputs, result, ledger_created, cash, positions, dates,
                   start_date, di, items, daily_transactions>>

\* "selected_stocks = self.select_stocks(data, date)" and the even split
Select ==
    /\ pc = "select"
    /\ LET selected == select_stocks(dates[di])
       IN /\ selected_stocks' = selected
          /\ IF selected # <<>>
             THEN /\ per_stock_capital' = [cash |-> cash, n |-> Len(selected)]
                  /\ ii' = 1
                  /\ pc' = "buy"
                  /\ UNCHANGED last_rebalance_date
             ELSE /\ last_rebalance_date' = dates[di]
                  /\ pc' = "record"
                  /\ UNCHANGED <<per_stock_capital, ii>>
    /\ UNCHANGED <<inputs, result, ledger_created, cash, positions, dates,
                   start_date, di, items, daily_transactions>>

\* BuyRebalance dividing the cash that is left when the instrument is bought,
\* instead of the cash left after the sells
BuyRebalance_RunningCash ==
    /\ pc = "buy"
    /\ LET ts_code == selected_stocks[ii]
           date == dates[di]
           daily_data == DailyData(data[ts_code], date)
       IN IF daily_data # <<>>
          THEN LET current_price == daily_data[1].close
                   running == [per_stock_capital EXCEPT !.cash = cash]
                   max_shares == MaxSharesRebalance(running, current_price,
                                                    commission)
               IN IF max_shares > 0
                  THEN /\ cash' = cash - Cost(max_shares, current_price,
                                              commission)
                       /\ positions' =
                            IF DictHas(positions, ts_code)
                            THEN DictSet(positions, ts_code,
                                         DictGet(positions, ts_code)
                                         + max_shares)
                            ELSE DictSet(positions, ts_code, max_shares)
                       /\ daily_transactions' =
                            Append(daily_transactions,
                                   Transaction(date, ts_code, "buy",
                                               current_price, max_shares,
                                               commission))
                  ELSE UNCHANGED <<cash, positions, daily_transactions>>
          ELSE UNCHANGED <<cash, positions, daily_transactions>>
    /\ ii' = ii + 1
    /\ IF ii = Len(selected_stocks)
       THEN /\ last_rebalance_date' = dates[di]
            /\ pc' = "record"
       ELSE /\ pc' = "buy"
            /\ UNCHANGED last_rebalance_date
    /\ UNCHANGED <<inputs, result, ledger_created, dates, start_date, di,
                   items, selected_stocks, per_stock_capital>>

\* one iteration of "for ts_code in selected_stocks"; after the last one,
\* "last_rebalance_date = date"
BuyRebalance ==
    /\ pc = "buy"
    /\ LET ts_code == selected_stocks[ii]
           date == dates[di]
           daily_data == DailyData(data[ts_code], date)
       IN IF daily_data # <<>>
          THEN LET current_price == daily_data[1].close
                   max_shares == MaxSharesRebalance(per_stock_capital,
                                                    current_price, commission)
               IN IF max_shares > 0
                  THEN /\ cash' = cash - Cost(max_shares, current_price,
                                              commission)
                       /\ positions' =
                            IF DictHas(positions, ts_code)
                            THEN DictSet(positions, ts_code,
                                         DictGet(positions, ts_code)
                                         + max_shares)
                            ELSE DictSet(positions, ts_code, max_shares)
                       /\ daily_transactions' =
                            Append(daily_transactions,
                                   Transaction(date, ts_code, "buy",
                                               current_price, max_shares,
                                               commission))
                  ELSE UNCHANGED <<cash, positions, daily_transactions>>
          ELSE UNCHANGED <<cash, positions, daily_transactions>>
    /\ ii' = ii + 1
    /\ IF ii = Len(selected_stocks)
       THEN /\ last_rebalance_date' = dates[di]
            /\ pc' = "record"
       ELSE /\ pc' = "buy"
            /\ UNCHANGED last_rebalance_date
    /\ UNCHANGED <<inputs, result, ledger_created, dates, start_date, di,
                   items, selected_stocks, per_stock_capital>>

(***************************************************************************)
(* The end of a date and the end of the run (the same in the three files)  *)
(***************************************************************************)
\* Record that appends the position snapshot only on a date with a trade
Record_SnapshotOnTrade ==
    /\ pc = "record"
    /\ LET date == dates[di]
           point == [date |-> date,
                     value |-> PortfolioValue(cash, positions, data, date)]
           snapshot == [date |-> date, cash |-> cash,
                        positions |-> CurrentPositions(positions, data, date)]
       IN result' =
            [result EXCEPT
               !.returns = Append(@, point),
               !.positions = IF daily_transactions = <<>> THEN @
                             ELSE Append(@, snapshot),
               !.transactions = @ \o daily_transactions]
    /\ di' = di + 1
    /\ pc' = "date"
    /\ UNCHANGED <<inputs, ledger_created, cash, positions,
                   last_rebalance_date, dates, start_date, ii, items,
                   selected_stocks, per_stock_capital, daily_transactions>>

\* the statements after the trades of a date: value, snapshot, transactions
Record ==
    /\ pc = "record"
    /\ LET date == dates[di]
       IN result' =
            [result EXCEPT
               !.returns = Append(@, [date |-> date,
                                      value |-> PortfolioValue(cash, positions,
                                                               data, date)]),
               !.positions = Append(@, [date |-> date, cash |-> cash,
                                        positions |->
                                          CurrentPositions(positions, data,
                                                           date)]),
               !.transactions = @ \o daily_transactions]
    /\ di' = di + 1
    /\ pc' = "date"
    /\ UNCHANGED <<inputs, ledger_created, cash, positions,
                   last_rebalance_date, dates, start_date, ii, items,
                   selected_stocks, per_stock_capital, daily_transactions>>

\* the statements after the date loop.  total_return is kept as the exact
\* fraction num / den it is 100 times; dividing by initial_capital = 0 raises
\* ZeroDivisionError and nothing is returned.  annualized_return is kept as the pair it is
\* computed from (a real power of total_return).
Finish ==
    /\ pc = "date"
    /\ di > Len(dates)
    /\ LET final == IF result.returns # <<>>
                    THEN result.returns[Len(result.returns)].value
                    ELSE result.final_capital
           total_return == [num |-> final - initial_capital,
                            den |-> initial_capital]
           days == Len(result.returns)
       IN IF initial_capital = 0
          THEN /\ pc' = "raised"
               /\ result' = [result EXCEPT !.final_capital = final]
          ELSE /\ pc' = "done"
               /\ result' =
                    [result EXCEPT !.final_capital = final]
                    @@ [total_return |-> total_return,
                        annualized_return |->
                          IF days > 1
                          THEN [total_return |-> total_return, days |-> days]
                          ELSE [total_return |-> total_return, days |-> 1]]
    /\ UNCHANGED <<inputs, ledger_created, cash, positions,
                   last_rebalance_date, dates, start_date, di, ii, items,
                   selected_stocks, per_stock_capital, daily_transactions>>

Next ==
    \/ StartEmpty
    \/ Start
    \/ BeginDateMA
    \/ TradeMA
    \/ SkipDate
    \/ BeginDateRebalance
    \/ SellRebalance
    \/ Select
    \/ BuyRebalance
    \/ Record
    \/ Finish

Spec == Init /\ [][Next]_vars

(***************************************************************************)
(* The same call made twice: the caller runs run_backtest again on the     *)
(* same strategy object with the same arguments once the first call ended. *)
(***************************************************************************)
\* the first call has ended; its outcome is kept and the second call starts
\* with fresh locals
CallAgain ==
    /\ pc \in {"done", "raised"}
    /\ earlier = NoCall
    /\ earlier' = [pc |-> pc, result |-> result]
    /\ pc' = "not_started"
    /\ result' = <<>>
    /\ ledger_created' = FALSE
    /\ cash' = 0
    /\ positions' = <<>>
    /\ last_rebalance_date' = NoDate
    /\ dates' = <<>>
    /\ start_date' = NoDate
    /\ di' = 0
    /\ ii' = 0
    /\ items' = <<>>
    /\ selected_stocks' = <<>>
    /\ per_stock_capital' = [cash |-> 0, n |-> 1]
    /\ daily_transactions' = <<>>
    /\ UNCHANGED <<strategy, params, codes, data, seeded, initial_capital,
                   commission, frame, prices, returns, drawdowns, max_price>>

NextTwice == Next \/ CallAgain

\* the calls that are repeated: those on price data over the first
\* MaxDates - 1 dates of the calendar
InitTwice ==
    /\ Init
    /\ TradeDates(data) \subseteq {Calendar[k] : k \in 1..(MaxDates - 1)}

SpecTwice == InitTwice /\ [][NextTwice]_vars

(***************************************************************************)
(* A call under the scheduling of a sequential program: the interpreter    *)
(* executes the next statement of run_backtest whenever there is one.      *)
(***************************************************************************)
\* every instrument of the mapping has the same bars (dates and closes)
SameBars(dat) ==
    \A c, d \in DOMAIN dat :
        /\ Len(dat[c]) = Len(dat[d])
        /\ \A i \in 1..Len(dat[c]) :
            /\ dat[c][i].trade_date = dat[d][i].trade_date
            /\ dat[c][i].close = dat[d][i].close

\* the calls followed to their end: those on one instrument, or on two
\* instruments with the same bars
InitFair ==
    /\ Init
    /\ SameBars(data)

SpecFair == InitFair /\ [][Next]_vars /\ WF_vars(Next)

(***************************************************************************)
(* MACrossStrategy.run_backtest on a mapping of three instruments, each    *)
(* with a bar on every date.                                               *)
(***************************************************************************)
ThreeTables(n) ==
    {[codes |-> <<"A", "B", "C">>, cols |-> <<a, b, c>>] :
        a \in FullColumns(n), b \in FullColumns(n), c \in FullColumns(n)}

\* The capital is 31000 currency units: 0.95 of it pays for two lots at price
\* 100 and 0.95 of what is left pays for one more, so that two instruments
\* can be bought on one date.
InitThree ==
    /\ strategy = "ma"
    /\ params \in MAParams \cup {[fast_period |-> 1, slow_period |-> 3]}
    /\ \E t \in ThreeTables(MaxDates) :
        /\ codes = t.codes
        /\ data = DataOf(t, [c \in {"A", "B", "C"} |-> NoValuation])
    /\ seeded = NoSeeds
    /\ initial_capital = 3100000
    /\ commission = 3
    /\ InitLocals

NextThree ==
    \/ Start
    \/ BeginDateMA
    \/ TradeMA
    \/ Record
    \/ Finish

SpecThree == InitThree /\ [][NextThree]_vars

(***************************************************************************)
(* MACrossStrategy.calculate_signals on its own: one call on one price     *)
(* series, one action per iteration of its loop over the bars.             *)
(***************************************************************************)
\* Longest series of a calculate_signals call.
MaxBars == 6

\* Largest moving-average window.
MaxPeriod == 3

\* closes of the strictly rising series
RisingCloses == {50 * k : k \in 1..(MaxBars + 1)}

\* the series whose close is strictly increasing bar after bar
RisingSeries ==
    {SortedSeq(S) : S \in {T \in SUBSET RisingCloses : Cardinality(T) <= MaxBars}}

\* the price series of a call: every series over Closes and every strictly
\* rising series
SignalSeries == UNION {[1..n -> Closes] : n \in 0..MaxBars} \cup RisingSeries

\* the state after "df = data.copy()", the rolling means and
\* "df['signal'] = 0", before the loop "for i in range(1, len(df))"
InitSignals ==
    /\ strategy = "ma"
    /\ params \in [fast_period : 1..MaxPeriod, slow_period : 1..MaxPeriod]
    /\ codes = <<>>
    /\ data = <<>>
    /\ \E s \in SignalSeries :
         frame = [k \in 1..Len(s) |-> [close |-> s[k], signal |-> 0]]
    /\ seeded = NoSeeds
    /\ initial_capital = 0
    /\ commission = 0
    /\ pc = "signals"
    /\ ii = 2
    /\ result = <<>>
    /\ ledger_created = FALSE
    /\ cash = 0
    /\ positions = <<>>
    /\ last_rebalance_date = NoDate
    /\ dates = <<>>
    /\ start_date = NoDate
    /\ di = 0
    /\ items = <<>>
    /\ selected_stocks = <<>>
    /\ per_stock_capital = [cash |-> 0, n |-> 1]
    /\ daily_transactions = <<>>
    /\ earlier = NoCall
    /\ NoSeries

\* one iteration of the loop: the signal of bar ii
CalcSignalStep ==
    /\ pc = "signals"
    /\ ii <= Len(frame)
    /\ frame' = [frame EXCEPT ![ii].signal =
                SignalAt(frame, ii, params.fast_period, params.slow_period)]
    /\ ii' = ii + 1
    /\ UNCHANGED <<strategy, params, codes, data, seeded, initial_capital,
                   commission, pc, result, ledger_created, cash, positions,
                   last_rebalance_date, dates, start_date, di, items,
                   selected_stocks, per_stock_capital, daily_transactions,
                   earlier, prices, returns, drawdowns, max_price>>

\* "return df"
ReturnSignals ==
    /\ pc = "signals"
    /\ ii > Len(frame)
    /\ pc' = "signals_done"
    /\ UNCHANGED <<inputs, result, ledger_created, cash, positions,
                   last_rebalance_date, dates, start_date, di, ii, items,
                   selected_stocks, per_stock_capital, daily_transactions>>

NextSignals == CalcSignalStep \/ ReturnSignals

SpecSignals == InitSignals /\ [][NextSignals]_vars

(***************************************************************************)
(* Properties                                                              *)
(***************************************************************************)
(***************************************************************************)
(* MomentumStrategy.select_stocks on its own: one call select_stocks(data, *)
(* date), one action per iteration of its loop over data.items() and one   *)
(* for the sort and the slice.  momentum_scores is kept in 'items'.        *)
(***************************************************************************)
\* the state at the call, after "momentum_scores = []"; the date argument is
\* a date of the unified date axis, as in run_backtest
InitSelect ==
    /\ strategy = "momentum"
    /\ params \in MomentumParams
    /\ \E t \in Tables(MaxDates) :
        /\ codes = t.codes
        /\ data = DataOf(t, NoSeeds)
        /\ dates = SortedSeq(TradeDates(DataOf(t, NoSeeds)))
    /\ di \in 1..Len(dates)
    /\ seeded = NoSeeds
    /\ initial_capital = 0
    /\ commission = 0
    /\ pc = "scores"
    /\ ii = 1
    /\ items = <<>>
    /\ selected_stocks = <<>>
    /\ result = <<>>
    /\ ledger_created = FALSE
    /\ cash = 0
    /\ positions = <<>>
    /\ last_rebalance_date = NoDate
    /\ start_date = NoDate
    /\ per_stock_capital = [cash |-> 0, n |-> 1]
    /\ daily_transactions = <<>>
    /\ frame = <<>>
    /\ earlier = NoCall
    /\ NoSeries

\* one iteration of "for ts_code, df in data.items()"
ScoreStep ==
    /\ pc = "scores"
    /\ ii <= Len(codes)
    /\ LET ts_code == codes[ii]
           historical_data == HistoricalData(data[ts_code], dates[di])
       IN items' =
            IF Len(historical_data) >= params.lookback_period
            THEN Append(items,
                        [code |-> ts_code,
                         momentum |-> calculate_momentum(historical_data,
                                                         params.lookback_period)])
            ELSE items
    /\ ii' = ii + 1
    /\ UNCHANGED <<inputs, pc, result, ledger_created, cash, positions,
                   last_rebalance_date, dates, start_date, di,
                   selected_stocks, per_stock_capital, daily_transactions>>

\* the sort, the slice [:top_n] and the return
SortAndSelect ==
    /\ pc = "scores"
    /\ ii > Len(codes)
    /\ LET sorted == SortByMomentum(items)
           k == IF params.top_n < Len(sorted) THEN params.top_n
                ELSE Len(sorted)
       IN /\ items' = sorted
          /\ selected_stocks' = [i \in 1..k |-> sorted[i].code]
    /\ pc' = "selected"
    /\ UNCHANGED <<inputs, result, ledger_created, cash, positions,
                   last_rebalance_date, dates, start_date, di, ii,
                   per_stock_capital, daily_transactions>>

NextSelect == ScoreStep \/ SortAndSelect

SpecSelect == InitSelect /\ [][NextSelect]_vars

(***************************************************************************)
(* data/process.py: calculate_returns and calculate_drawdowns, one call on *)
(* one list of prices, one action per iteration of the loop.  A percentage *)
(* is kept as the exact fraction num / den.                                *)
(***************************************************************************)
\* Longest list of prices of a call.
MaxPrices == 4

PriceLists == UNION {[1..n -> {50, 100, 150}] : n \in 0..MaxPrices}

\* ReturnOf without the subtraction of the base price
ReturnOf_Ratio(price, base_price) ==
    [num |-> price * 100, den |-> base_price]

\* (price - base_price) / base_price * 100
ReturnOf(price, base_price) ==
    [num |-> (price - base_price) * 100, den |-> base_price]

\* RunningMax that keeps the first price as the maximum
RunningMax_Stale(max_price_, price) == max_price_

\* max(max_price, price)
RunningMax(max_price_, price) ==
    IF price > max_price_ THEN price ELSE max_price_

\* (price - max_price) / max_price * 100
DrawdownOf(price, max_price_) ==
    [num |-> (price - max_price_) * 100, den |-> max_price_]

\* a call of calculate_returns(prices) or calculate_drawdowns(prices), before
\* its first statement
InitMetrics ==
    /\ pc \in {"call_returns", "call_drawdowns"}
    /\ prices \in PriceLists
    /\ returns = <<>>
    /\ drawdowns = <<>>
    /\ max_price = 0
    /\ ii = 0
    /\ strategy = "ma"
    /\ params \in MAParams
    /\ codes = <<>>
    /\ data = <<>>
    /\ seeded = NoSeeds
    /\ initial_capital = 0
    /\ commission = 0
    /\ result = <<>>
    /\ ledger_created = FALSE
    /\ cash = 0
    /\ positions = <<>>
    /\ last_rebalance_date = NoDate
    /\ dates = <<>>
    /\ start_date = NoDate
    /\ di = 0
    /\ items = <<>>
    /\ selected_stocks = <<>>
    /\ per_stock_capital = [cash |-> 0, n |-> 1]
    /\ daily_transactions = <<>>
    /\ frame = <<>>
    /\ earlier = NoCall

\* what calculate_returns and calculate_drawdowns leave alone
backtest == <<strategy, params, codes, data, seeded, initial_capital,
              commission, result, ledger_created, cash, positions,
              last_rebalance_date, dates, start_date, di, items,
              selected_stocks, per_stock_capital, daily_transactions, frame,
              earlier, prices>>

\* calculate_returns up to its loop: "if not prices or len(prices) < 2:
\* return []", else "returns = []" and "base_price = prices[0]"
StartReturns ==
    /\ pc = "call_returns"
    /\ returns' = <<>>
    /\ IF Len(prices) < 2
       THEN pc' = "returns_returned" /\ UNCHANGED ii
       ELSE pc' = "returns_loop" /\ ii' = 1
    /\ UNCHANGED <<backtest, drawdowns, max_price>>

\* one iteration of "for price in prices" of calculate_returns
ReturnsStep ==
    /\ pc = "returns_loop"
    /\ ii <= Len(prices)
    /\ returns' = Append(returns, ReturnOf(prices[ii], prices[1]))
    /\ ii' = ii + 1
    /\ UNCHANGED <<backtest, pc, drawdowns, max_price>>

\* "return returns"
ReturnReturns ==
    /\ pc = "returns_loop"
    /\ ii > Len(prices)
    /\ pc' = "returns_returned"
    /\ UNCHANGED <<backtest, ii, returns, drawdowns, max_price>>

\* calculate_drawdowns up to its loop
StartDrawdowns ==
    /\ pc = "call_drawdowns"
    /\ drawdowns' = <<>>
    /\ IF Len(prices) < 2
       THEN pc' = "drawdowns_returned" /\ UNCHANGED <<ii, max_price>>
       ELSE pc' = "drawdowns_loop" /\ ii' = 1 /\ max_price' = prices[1]
    /\ UNCHANGED <<backtest, returns>>

\* one iteration of "for price in prices" of calculate_drawdowns
DrawdownsStep ==
    /\ pc = "drawdowns_loop"
    /\ ii <= Len(prices)
    /\ max_price' = RunningMax(max_price, prices[ii])
    /\ drawdowns' = Append(drawdowns, DrawdownOf(prices[ii], max_price'))
    /\ ii' = ii + 1
    /\ UNCHANGED <<backtest, pc, returns>>

\* "return drawdowns"
ReturnDrawdowns ==
    /\ pc = "drawdowns_loop"
    /\ ii > Len(prices)
    /\ pc' = "drawdowns_returned"
    /\ UNCHANGED <<backtest, ii, returns, drawdowns, max_price>>

NextMetrics ==
    \/ StartReturns
    \/ ReturnsStep
    \/ ReturnReturns
    \/ StartDrawdowns
    \/ DrawdownsStep
    \/ ReturnDrawdowns

SpecMetrics == InitMetrics /\ [][NextMetrics]_vars

\* the result is a normal result (it has the equity curve, the snapshots and
\* the transaction log)
NormalResult == "returns" \in DOMAIN result

Last(s) == s[Len(s)]

HasAction(log, action) == \E k \in 1..Len(log) : log[k].action = action

RECURSIVE SumOver(_, _)
\* sum of f[x] over the finite set S
SumOver(S, f) ==
    IF S = {} THEN 0
    ELSE LET x == CHOOSE y \in S : TRUE
         IN f[x] + SumOver(S \ {x}, f)

\* the close of instrument c on date, 0 when c has no bar on that date
CloseOn(c, date) ==
    LET bars == {k \in 1..Len(data[c]) : data[c][k].trade_date = date}
    IN IF bars = {} THEN 0 ELSE data[c][CHOOSE k \in bars : TRUE].close

HasBarOn(c, date) == \E k \in 1..Len(data[c]) : data[c][k].trade_date = date

\* the share count of instrument c in the positions mapping, 0 when absent
SharesOf(pos, c) ==
    LET held == {k \in 1..Len(pos) : pos[k].code = c}
    IN IF held = {} THEN 0 ELSE pos[CHOOSE k \in held : TRUE].shares

\* C1: with initial_capital >= 0, positive closes and 0 <= commission < 1, the
\* cash balance is never negative: neither the running cash nor the cash field
\* of any position snapshot.
C1_CashNeverNegative ==
    ledger_created =>
        /\ cash >= 0
        /\ NormalResult =>
             \A k \in 1..Len(result.positions) : result.positions[k].cash >= 0

\* a finished run that bought and sold, so cash went down and up
C1_Witness ==
    /\ pc = "done"
    /\ NormalResult
    /\ HasAction(result.transactions, "buy")
    /\ HasAction(result.transactions, "sell")
    /\ Len(result.positions) >= 2
    /\ cash >= 0

\* C2: every share count in the positions mapping (and in every snapshot) is
\* a non-negative multiple of 100, also after a buy that follows a sell of the
\* same instrument and after sells.
C2_SharesWholeLots ==
    /\ \A k \in 1..Len(positions) :
         positions[k].shares >= 0 /\ positions[k].shares % 100 = 0
    /\ NormalResult =>
         \A k \in 1..Len(result.positions) :
           \A j \in 1..Len(result.positions[k].positions) :
              /\ result.positions[k].positions[j].shares > 0
              /\ result.positions[k].positions[j].shares % 100 = 0

\* an instrument bought, sold and bought again is held, another one was sold
\* down to 0
C2_Witness ==
    /\ NormalResult
    /\ \E c \in Instruments :
         /\ SharesOf(positions, c) > 0
         /\ \E i, j \in 1..Len(result.transactions) :
              /\ i < j
              /\ result.transactions[i].code = c
              /\ result.transactions[i].action = "buy"
              /\ result.transactions[j].code = c
              /\ result.transactions[j].action = "sell"
         /\ \E k \in 1..Len(daily_transactions) :
              /\ daily_transactions[k].code = c
              /\ daily_transactions[k].action = "buy"
    /\ \E k \in 1..Len(positions) : positions[k].shares = 0

\* C3: the value recorded for a date is the cash after that date's trades
\* plus shares * close over the instruments held with a bar on that date; a
\* held instrument without a bar on the date adds 0.  (Stated where the
\* date's record was just appended: cash and positions are still the
\* date's; recorded entries never change afterwards.)
C3_ValueIsCashPlusHoldings ==
    (pc = "date" /\ NormalResult /\ result.returns # <<>>) =>
        LET date == Last(result.returns).date
            worth == [c \in DOMAIN data |->
                        IF SharesOf(positions, c) > 0 /\ HasBarOn(c, date)
                        THEN SharesOf(positions, c) * CloseOn(c, date)
                             * MoneyScale
                        ELSE 0]
        IN /\ date = dates[di - 1]
           /\ Last(result.returns).value = cash + SumOver(DOMAIN data, worth)

\* a date was recorded on which a held instrument had no bar and another
\* held instrument had one
C3_Witness ==
    /\ pc = "date"
    /\ NormalResult
    /\ result.returns # <<>>
    /\ \E c \in DOMAIN data :
         /\ SharesOf(positions, c) > 0
         /\ ~HasBarOn(c, Last(result.returns).date)
    /\ \E c \in DOMAIN data :
         /\ SharesOf(positions, c) > 0
         /\ HasBarOn(c, Last(result.returns).date)
         /\ Last(result.returns).value > cash

\* the trade dates of all instruments
UnionOfDates ==
    {d \in AllDates :
        \E c \in DOMAIN data : \E k \in 1..Len(data[c]) :
            data[c][k].trade_date = d}

\* the dates of the equity curve, in curve order
CurveDates == [k \in 1..Len(result.returns) |-> result.returns[k].date]

StrictlyIncreasing(s) == \A i, j \in 1..Len(s) : i < j => s[i] < s[j]

Range(s) == {s[k] : k \in 1..Len(s)}

\* instrument c has at least n bars with trade_date <= d
HasBarsUpTo(c, d, n) ==
    Cardinality({k \in 1..Len(data[c]) : data[c][k].trade_date <= d}) >= n

\* the dates at which every instrument has lookback_period bars
SufficientDates ==
    {d \in UnionOfDates :
        \A c \in DOMAIN data : HasBarsUpTo(c, d, params.lookback_period)}

\* C4 as stated in the specification: in every result without an error field the equity-curve
\* dates are strictly increasing and are exactly the union of the trade
\* dates of all instruments.
C4_Original ==
    (pc = "done" /\ NormalResult) =>
        /\ StrictlyIncreasing(CurveDates)
        /\ Range(CurveDates) = UnionOfDates

\* C4 (amended): the equity-curve dates are strictly increasing; for MA-cross
\* and Value they are exactly the union of the trade dates, for Momentum they
\* are the dates of the union from the first date on at which every
\* instrument has at least lookback_period bars.
C4_CurveDates ==
    (pc = "done" /\ NormalResult) =>
        /\ StrictlyIncreasing(CurveDates)
        /\ strategy # "momentum" => Range(CurveDates) = UnionOfDates
        /\ strategy = "momentum" =>
             Range(CurveDates) =
               {d \in UnionOfDates : \E s \in SufficientDates : s <= d}

\* a finished Momentum run whose curve starts after the first trade date and
\* covers several dates contributed by different instruments
C4_Witness ==
    /\ pc = "done"
    /\ NormalResult
    /\ strategy = "momentum"
    /\ Len(result.returns) >= 2
    /\ \E d \in UnionOfDates : d < result.returns[1].date
    /\ \E c \in DOMAIN data : \E d \in Range(CurveDates) : ~HasBarOn(c, d)

\* C5: run_backtest on an empty mapping returns a result whose only field is
\* error, and creates or changes no ledger state (no cash, positions, dates).
C5_EmptyDataErrorOnly ==
    codes = <<>> =>
        /\ pc \in {"not_started", "done"}
        /\ pc = "done" => DOMAIN result = {"error"}
        /\ ~ledger_created
        /\ cash = 0 /\ positions = <<>> /\ dates = <<>>
        /\ daily_transactions = <<>> /\ last_rebalance_date = NoDate

\* the call on an empty mapping has returned
C5_Witness ==
    /\ codes = <<>>
    /\ pc = "done"
    /\ "error" \in DOMAIN result
    /\ strategy = "value"

\* every instrument of a non-empty mapping has zero bars
NoUsableData == codes # <<>> /\ \A c \in DOMAIN data : data[c] = <<>>

PriceOfShares(s, p) == (s \div LotSize) * p * (CommDen + commission)

\* what s shares yield at price p after commission
YieldOfShares(s, p) == (s \div LotSize) * p * (CommDen - commission)

\* s shares at price p fit in the budget of a buy: 0.95 of the cash for
\* MA-cross, 0.99 of the per-instrument cash share for Momentum and Value
Affordable(s, p) ==
    IF strategy = "ma"
    THEN PriceOfShares(s, p) <= Pct(cash, 95)
    ELSE PriceOfShares(s, p) * per_stock_capital.n
           <= Pct(per_stock_capital.cash, 99)

\* this step appended one transaction of the given action to the day's list
Appended(action) ==
    /\ Len(daily_transactions') = Len(daily_transactions) + 1
    /\ Last(daily_transactions').action = action

\* the other instruments' share counts are unchanged by this step
OthersUnchanged(c) ==
    \A o \in Instruments \ {c} : SharesOf(positions', o) = SharesOf(positions, o)

\* C7: every buy acquires the largest multiple of 100 shares whose cost with
\* commission fits the budget; with cash 100000, price 100 and commission
\* 0.0003 the MA-cross buy acquires 900 shares and leaves cash 9973.00.
C7_BuyIsLargestAffordable ==
    [][Appended("buy") =>
         LET t == Last(daily_transactions')
         IN /\ t.volume > 0
            /\ t.volume % LotSize = 0
            /\ Affordable(t.volume, t.price)
            /\ ~Affordable(t.volume + LotSize, t.price)
            /\ (strategy = "ma" /\ cash = 10000000 /\ t.price = 100
                /\ commission = 3) =>
                 (t.volume = 900 /\ cash' = 997300)]_vars

\* the MA-cross buy of the scenario has happened
C7_Witness ==
    /\ strategy = "ma"
    /\ commission = 3
    /\ cash = 997300
    /\ SharesOf(positions, "A") = 900
    /\ daily_transactions # <<>>
    /\ Last(daily_transactions).action = "buy"
    /\ Last(daily_transactions).price = 100
    /\ Last(daily_transactions).volume = 900

\* the instrument and price of the buy this step attempts, if any
AttemptCode == IF strategy = "ma" THEN codes[ii] ELSE selected_stocks[ii]

BuyAttempt ==
    /\ pc = IF strategy = "ma" THEN "trade" ELSE "buy"
    /\ HasBarOn(AttemptCode, dates[di])
    /\ strategy = "ma" =>
         /\ cash > 0
         /\ LET hist == HistoricalData(data[AttemptCode], dates[di])
            IN SignalAt(hist, Len(hist), params.fast_period,
                        params.slow_period) = 1

\* C8: a buy attempt whose budget does not afford one lot changes neither
\* cash nor any share count and appends no transaction; any other buy attempt
\* appends exactly one BUY transaction, lowers cash by shares * price *
\* (1 + commission) and raises the instrument's share count by shares.
C8_BuyEffect ==
    [][BuyAttempt =>
         LET c == AttemptCode
             p == CloseOn(c, dates[di])
         IN IF ~Affordable(LotSize, p)
            THEN /\ UNCHANGED <<cash, positions, daily_transactions>>
                 /\ result'.transactions = result.transactions
            ELSE /\ Appended("buy")
                 /\ SubSeq(daily_transactions', 1, Len(daily_transactions))
                      = daily_transactions
                 /\ result'.transactions = result.transactions
                 /\ LET t == Last(daily_transactions')
                    IN /\ t.code = c /\ t.price = p /\ t.volume > 0
                       /\ cash' = cash - PriceOfShares(t.volume, p)
                       /\ SharesOf(positions', c)
                            = SharesOf(positions, c) + t.volume
                       /\ OthersUnchanged(c)]_vars

\* MA-cross: the instrument just processed gave a BUY signal with cash > 0
\* left, one lot was not affordable, and nothing was bought
C8_Witness ==
    /\ strategy = "ma"
    /\ pc \in {"trade", "record"}
    /\ ii >= 2
    /\ cash > 0
    /\ LET c == codes[ii - 1]
           hist == HistoricalData(data[c], dates[di])
       IN /\ HasBarOn(c, dates[di])
          /\ SignalAt(hist, Len(hist), params.fast_period,
                      params.slow_period) = 1
          /\ ~Affordable(LotSize, CloseOn(c, dates[di]))
          /\ \A k \in 1..Len(daily_transactions) :
               daily_transactions[k].code # c
          /\ SharesOf(positions, c) = 0

\* MA-cross: this step processes an instrument with a SELL signal
SellSignal ==
    /\ pc = "trade"
    /\ strategy = "ma"
    /\ HasBarOn(codes[ii], dates[di])
    /\ LET hist == HistoricalData(data[codes[ii]], dates[di])
       IN SignalAt(hist, Len(hist), params.fast_period,
                   params.slow_period) = -1

\* C9: a sell liquidates the whole position: afterwards the share count is 0,
\* the transaction's volume is the count held before and cash grew by
\* shares * price * (1 - commission); a sell signal for an absent or zero
\* position changes neither cash nor positions and appends no transaction.
C9_SellEffect ==
    [][/\ Appended("sell") =>
            LET t == Last(daily_transactions')
            IN /\ t.volume > 0
               /\ t.volume = SharesOf(positions, t.code)
               /\ SharesOf(positions', t.code) = 0
               /\ OthersUnchanged(t.code)
               /\ t.price = CloseOn(t.code, dates[di])
               /\ cash' = cash + YieldOfShares(t.volume, t.price)
       /\ (SellSignal /\ SharesOf(positions, codes[ii]) = 0) =>
            /\ UNCHANGED <<cash, positions, daily_transactions>>
            /\ result'.transactions = result.transactions
       /\ (SellSignal /\ SharesOf(positions, codes[ii]) > 0) =>
            Appended("sell")]_vars

\* MA-cross: on one date a held instrument was sold and a SELL signal of an
\* instrument that was never held did nothing
C9_Witness ==
    /\ strategy = "ma"
    /\ pc = "record"
    /\ Len(codes) = 2
    /\ Len(daily_transactions) = 1
    /\ daily_transactions[1].action = "sell"
    /\ SharesOf(positions, daily_transactions[1].code) = 0
    /\ DictHas(positions, daily_transactions[1].code)
    /\ \E c \in DOMAIN data :
         /\ ~DictHas(positions, c)
         /\ HasBarOn(c, dates[di])
         /\ LET hist == HistoricalData(data[c], dates[di])
            IN SignalAt(hist, Len(hist), params.fast_period,
                        params.slow_period) = -1

\* sum of the closes of the w bars of frame ending at bar i
ClosesSum(i, w) ==
    SumOver((i - w + 1)..i, [k \in 1..Len(frame) |-> frame[k].close])

\* both moving averages exist at bar i
BothDefined(i) == i >= params.fast_period /\ i >= params.slow_period

\* the sign of fast MA - slow MA at bar i (the averages cross-multiplied)
FastMinusSlow(i) ==
    ClosesSum(i, params.fast_period) * params.slow_period
    - ClosesSum(i, params.slow_period) * params.fast_period

\* the bars whose signal the loop has set and whose averages exist at the
\* bar and at the bar before
DecidedBars ==
    {i \in 2..Len(frame) : i < ii /\ BothDefined(i - 1) /\ BothDefined(i)}

RisingFrame == \A i, j \in 1..Len(frame) : i < j => frame[i].close < frame[j].close

\* C11: MA-cross with fast_period < slow_period on one instrument whose close
\* rises strictly bar after bar never emits a SELL signal at any bar (so the
\* run, which sells only on a SELL signal, records no SELL transaction).
C11_NoSellOnRisingSeries ==
    (params.fast_period < params.slow_period /\ RisingFrame) =>
        \A i \in 1..Len(frame) : frame[i].signal # -1

\* a finished call on a rising series longer than slow_period, with the fast
\* average above the slow one at two consecutive bars
C11_Witness ==
    /\ pc = "signals_done"
    /\ params.fast_period < params.slow_period
    /\ RisingFrame
    /\ Len(frame) > params.slow_period + 1
    /\ \E i \in DecidedBars : FastMinusSlow(i - 1) > 0 /\ FastMinusSlow(i) > 0

\* the number of bars with a BUY signal
BuySignals == Cardinality({i \in 1..Len(frame) : frame[i].signal = 1})

\* C12 as stated in the specification: MA-cross with fast_period <
\* slow_period on a strictly rising series longer than slow_period emits
\* exactly one BUY signal over the whole call.
C12_Original ==
    (/\ pc = "signals_done"
     /\ params.fast_period < params.slow_period
     /\ RisingFrame
     /\ Len(frame) > params.slow_period) =>
        BuySignals = 1

\* the number of bars of instrument c with trade_date <= d (they are the
\* first bars of its series)
BarsUpTo(c, d) ==
    Cardinality({k \in 1..Len(data[c]) : data[c][k].trade_date <= d})

\* the score is the percent change from the close 'from' to the close 'to'
PercentChangeIs(score, from, to) ==
    score.num * from = (to - from) * 100 * score.den

\* C13 as stated in the specification: the score of an instrument at date d is the
\* percent change of close from the bar lookback_period positions before the
\* last bar with trade_date <= d to that last bar.
C13_Original ==
    \A k \in 1..Len(items) :
        LET c == items[k].code
            m == BarsUpTo(c, dates[di])
        IN m - params.lookback_period >= 1 =>
             PercentChangeIs(items[k].momentum,
                             data[c][m - params.lookback_period].close,
                             data[c][m].close)

\* C13 (amended): the score of an instrument at date d is the percent change
\* of close from the first to the last of the last lookback_period bars with
\* trade_date <= d: the start price is the close of the bar lookback_period - 1
\* positions before the last bar of the history.
C13_MomentumScore ==
    \A k \in 1..Len(items) :
        LET c == items[k].code
            m == BarsUpTo(c, dates[di])
        IN /\ m >= params.lookback_period
           /\ PercentChangeIs(items[k].momentum,
                              data[c][m - params.lookback_period + 1].close,
                              data[c][m].close)

\* a score was computed for an instrument that has more than lookback_period
\* bars up to the date and a bar after the date, and whose close changed over
\* the last lookback_period bars but not over the last lookback_period + 1
C13_Witness ==
    /\ pc = "selected"
    /\ \E k \in 1..Len(items) :
         LET c == items[k].code
             m == BarsUpTo(c, dates[di])
         IN /\ m > params.lookback_period
            /\ m < Len(data[c])
            /\ items[k].momentum.num # 0
            /\ data[c][m - params.lookback_period].close = data[c][m].close

\* the closes at the two ends of the last lookback_period bars of instrument
\* c with trade_date <= d
WindowStart(c, d) ==
    data[c][BarsUpTo(c, d) - params.lookback_period + 1].close

WindowEnd(c, d) == data[c][BarsUpTo(c, d)].close

\* the percent change over the window of u is strictly higher than that of s
\* ((eu - su) / su > (es - ss) / ss, cross-multiplied)
HigherMomentum(u, s, d) ==
    (WindowEnd(u, d) - WindowStart(u, d)) * WindowStart(s, d)
        > (WindowEnd(s, d) - WindowStart(s, d)) * WindowStart(u, d)

\* a Momentum run stands right after the selection of the date dates[di]
JustSelected ==
    /\ strategy = "momentum"
    /\ \/ pc = "buy"
       \/ pc = "record" /\ last_rebalance_date = dates[di]

\* C14: the Momentum selection of a date has at most top_n instruments, each
\* with at least lookback_period bars up to the date, and no unselected
\* instrument with sufficient history has a strictly higher score than a
\* selected one; with top_n = 1 and two instruments where A's close doubles
\* and B's halves over the lookback window, the first rebalance selects [A].
C14_SelectsTopMomentum ==
    JustSelected =>
        LET d == dates[di]
            chosen == Range(selected_stocks)
            enough == {c \in DOMAIN data :
                         BarsUpTo(c, d) >= params.lookback_period}
        IN /\ Len(selected_stocks) <= params.top_n
           /\ Cardinality(chosen) = Len(selected_stocks)
           /\ chosen \subseteq enough
           /\ \A s \in chosen : \A u \in enough \ chosen :
                ~HigherMomentum(u, s, d)
           /\ (/\ params.top_n = 1
               /\ DOMAIN data = {"A", "B"}
               /\ last_rebalance_date = NoDate
               /\ WindowEnd("A", d) = 2 * WindowStart("A", d)
               /\ 2 * WindowEnd("B", d) = WindowStart("B", d)) =>
                selected_stocks = <<"A">>

\* the first rebalance of a run with top_n = 1 selected A, whose close
\* doubled, over B, whose close halved
C14_Witness ==
    /\ JustSelected
    /\ pc = "buy"
    /\ params.top_n = 1
    /\ DOMAIN data = {"A", "B"}
    /\ last_rebalance_date = NoDate
    /\ WindowEnd("A", dates[di]) = 2 * WindowStart("A", dates[di])
    /\ 2 * WindowEnd("B", dates[di]) = WindowStart("B", dates[di])
    /\ selected_stocks = <<"A">>

\* the day number of each date of Calendar, counted from its first date
\* (20240130): the month ends after the second date, a weekend lies between
\* the fourth and the fifth
DayNumbers == <<0, 1, 2, 3, 6, 7>>

\* calendar days from date a to date b
CalendarDays(a, b) ==
    LET n(d) == DayNumbers[CHOOSE k \in 1..Len(Calendar) : Calendar[k] = d]
    IN n(b) - n(a)

\* this step decides whether the date dates[di] of a Momentum or Value run is
\* a rebalance date
DecidesRebalance ==
    Rebalancing /\ pc = "date" /\ pc' \in {"sell", "select", "record"}

\* this step ends the rebalance of the date dates[di]
EndsRebalance == pc \in {"select", "buy"} /\ pc' = "record"

\* C15: in Momentum and Value runs a processed date is a rebalance date
\* exactly when no rebalance has happened earlier in the run or the calendar
\* days since the most recent rebalance date are >= the period
\* (last_rebalance_date is None until the first rebalance ends and is the most
\* recent rebalance date afterwards); transactions are recorded only on
\* rebalance dates; two consecutive rebalance dates are at least the period in
\* calendar days apart.
C15_RebalanceDates ==
    [][/\ DecidesRebalance =>
            (pc' \in {"sell", "select"}
               <=> \/ last_rebalance_date = NoDate
                   \/ CalendarDays(last_rebalance_date, dates[di]) >= Period)
       /\ EndsRebalance => last_rebalance_date' = dates[di]
       /\ last_rebalance_date' # last_rebalance_date => EndsRebalance
       /\ (EndsRebalance /\ last_rebalance_date # NoDate) =>
            CalendarDays(last_rebalance_date, last_rebalance_date') >= Period
       /\ (Rebalancing /\ daily_transactions' # daily_transactions
           /\ daily_transactions' # <<>>) => pc \in {"sell", "buy"}
       /\ (Rebalancing /\ pc = "record") =>
            \A i, j \in 1..Len(result'.transactions) :
               result'.transactions[i].date < result'.transactions[j].date =>
                 CalendarDays(result'.transactions[i].date,
                              result'.transactions[j].date) >= Period]_vars

\* a run with period 2 rebalanced and traded on a date, passed a date one day
\* later without rebalancing, and rebalanced and traded again on a later date
C15_Witness ==
    /\ Rebalancing
    /\ Period = 2
    /\ pc = "record"
    /\ last_rebalance_date = dates[di]
    /\ daily_transactions # <<>>
    /\ Len(result.returns) = 2
    /\ CalendarDays(result.returns[1].date, result.returns[2].date) = 1
    /\ result.transactions # <<>>
    /\ \A k \in 1..Len(result.transactions) :
         result.transactions[k].date = result.returns[1].date

\* a Momentum or Value run stands between the sell step and the selection of
\* a rebalance date; 'items' holds the positions as they were when the date
\* began
AfterSellStep == Rebalancing /\ pc = "select"

\* C16 as stated in the specification: on a rebalance date, after the sell
\* step the share count of every instrument held when the date began is 0.
C16_Original ==
    AfterSellStep =>
        \A k \in 1..Len(items) :
            items[k].shares > 0 => SharesOf(positions, items[k].code) = 0

\* C16 (amended): on a rebalance date, after the sell step the share count is
\* 0 for every instrument that was held when the date began and has a bar on
\* that date; an instrument held when the date began that has no bar on that
\* date is not sold and keeps its share count.
C16_LiquidatesPricedPositions ==
    AfterSellStep =>
        \A k \in 1..Len(items) :
            items[k].shares > 0 =>
                IF HasBarOn(items[k].code, dates[di])
                THEN SharesOf(positions, items[k].code) = 0
                ELSE SharesOf(positions, items[k].code) = items[k].shares

\* after the sell step of a rebalance date one instrument held at its
\* beginning is sold and another one, without a bar on the date, is still held
C16_Witness ==
    /\ AfterSellStep
    /\ \E k \in 1..Len(items) :
         /\ items[k].shares > 0
         /\ HasBarOn(items[k].code, dates[di])
         /\ SharesOf(positions, items[k].code) = 0
    /\ \E k \in 1..Len(items) :
         /\ items[k].shares > 0
         /\ ~HasBarOn(items[k].code, dates[di])
         /\ SharesOf(positions, items[k].code) > 0

RECURSIVE SpentOnBuys(_)
\* what the BUY transactions of a list cost, commission included
SpentOnBuys(log) ==
    IF log = <<>> THEN 0
    ELSE (IF Head(log).action = "buy"
          THEN Head(log).amount + Head(log).commission ELSE 0)
         + SpentOnBuys(Tail(log))

\* in a transaction list no BUY of a date stands before a SELL of that date
SellsBeforeBuys(log) ==
    \A i, j \in 1..Len(log) :
        (i < j /\ log[i].date = log[j].date) =>
            ~(log[i].action = "buy" /\ log[j].action = "sell")

\* s shares at price p fit into 0.99 of the n-th part of the cash b
FitsShare(s, p, b, n) == PriceOfShares(s, p) * n <= Pct(b, 99)

\* C17: on a rebalance date of a Momentum or Value run every SELL of the date
\* precedes every BUY of the date in the transaction log, and every selected
\* instrument is bought on the same budget: the cash after all the date's
\* sells (the current cash plus what the date's buys cost so far) divided by
\* the number of selected instruments; each buy is the largest whole-lot
\* quantity that fits 0.99 of it, whatever was bought earlier on the date.
C17_SellSelectBuy ==
    Rebalancing =>
        /\ SellsBeforeBuys(daily_transactions)
        /\ NormalResult => SellsBeforeBuys(result.transactions)
        /\ pc = "sell" => ~HasAction(daily_transactions, "buy")
        /\ (pc \in {"buy", "record"} /\ HasAction(daily_transactions, "buy")) =>
             LET after_sells == cash + SpentOnBuys(daily_transactions)
                 n == Len(selected_stocks)
             IN /\ after_sells = per_stock_capital.cash
                /\ \A k \in 1..Len(daily_transactions) :
                     LET t == daily_transactions[k]
                     IN t.action = "buy" =>
                          /\ t.code \in Range(selected_stocks)
                          /\ FitsShare(t.volume, t.price, after_sells, n)
                          /\ ~FitsShare(t.volume + LotSize, t.price,
                                        after_sells, n)

\* on a rebalance date an instrument was sold and then two selected
\* instruments were bought, the second one for as many lots as its equal
\* share of the cash after the sells affords
C17_Witness ==
    /\ Rebalancing
    /\ pc = "record"
    /\ Len(selected_stocks) = 2
    /\ Len(daily_transactions) >= 3
    /\ daily_transactions[1].action = "sell"
    /\ Last(daily_transactions).action = "buy"
    /\ daily_transactions[Len(daily_transactions) - 1].action = "buy"
    /\ ~FitsShare(Last(daily_transactions).volume + LotSize,
                  Last(daily_transactions).price,
                  cash + SpentOnBuys(daily_transactions), 2)
    /\ FitsShare(Last(daily_transactions).volume + LotSize,
                 Last(daily_transactions).price,
                 cash + SpentOnBuys(daily_transactions), 1)

\* the earliest date at which every instrument has lookback_period bars
EarliestSufficient ==
    CHOOSE d \in SufficientDates : \A e \in SufficientDates : d <= e

\* no transaction of the log is dated before the date d
NoneBefore(log, d) == \A k \in 1..Len(log) : log[k].date >= d

TradedAtOwnClose(log) ==
    \A k \in 1..Len(log) :
        /\ HasBarOn(log[k].code, log[k].date)
        /\ log[k].price = CloseOn(log[k].code, log[k].date)

\* C19: every recorded transaction of an instrument is dated on a date on
\* which the instrument has a bar and its price is the instrument's close
\* on that date; an instrument without a bar on a date is neither bought nor
\* sold on that date.
C19_TradesOnlyAtBars ==
    /\ TradedAtOwnClose(daily_transactions)
    /\ pc \in {"trade", "sell", "select", "buy", "record"} =>
         \A k \in 1..Len(daily_transactions) :
            daily_transactions[k].date = dates[di]
    /\ NormalResult => TradedAtOwnClose(result.transactions)

\* on a rebalance date a selected instrument without a bar was passed over
\* while a held instrument without a bar stayed unsold and another selected
\* instrument was bought at its close
C19_Witness ==
    /\ Rebalancing
    /\ pc = "record"
    /\ last_rebalance_date = dates[di]
    /\ \E c \in Range(selected_stocks) :
         /\ ~HasBarOn(c, dates[di])
         /\ SharesOf(positions, c) > 0
         /\ \A k \in 1..Len(daily_transactions) :
              daily_transactions[k].code # c
    /\ \E k \in 1..Len(daily_transactions) :
         /\ daily_transactions[k].action = "buy"
         /\ daily_transactions[k].price
              = CloseOn(daily_transactions[k].code, dates[di])

C21_Original ==
    (pc = "returns_returned" /\ Len(prices) >= 1) =>
        /\ Len(returns) >= 1
        /\ returns[1].num = 0

\* C21 (amended): for any list of at least two positive prices
\* calculate_returns returns a list with one element per price whose first
\* element is 0; for a list of exactly one price (as for an empty list) it
\* returns the empty list, which has no first element.
C21_FirstReturnZero ==
    pc = "returns_returned" =>
        IF Len(prices) >= 2
        THEN /\ Len(returns) = Len(prices)
             /\ returns[1].num = 0
             /\ returns[1].den > 0
        ELSE returns = <<>>

\* a call on three prices has returned, with a later element that is not 0
C21_Witness ==
    /\ pc = "returns_returned"
    /\ Len(prices) = 3
    /\ returns[1].num = 0
    /\ returns[3].num # 0

\* the value at index i is the maximum of the values up to and including i
AtRunningMax(i) == \A j \in 1..i : prices[j] <= prices[i]

\* C22: for any list of at least two positive values calculate_drawdowns
\* returns a list of the same length in which every element is <= 0, and an
\* element is 0 exactly where the value equals the running maximum of the
\* values up to and including that index.
C22_DrawdownsNonPositive ==
    /\ pc \in {"drawdowns_loop", "drawdowns_returned"} =>
         \A i \in 1..Len(drawdowns) :
            /\ drawdowns[i].den > 0
            /\ drawdowns[i].num <= 0
            /\ drawdowns[i].num = 0 <=> AtRunningMax(i)
    /\ (pc = "drawdowns_returned" /\ Len(prices) >= 2) =>
         Len(drawdowns) = Len(prices)

\* a call has returned a list with a drawdown below 0 followed by a 0 at a
\* new maximum
C22_Witness ==
    /\ pc = "drawdowns_returned"
    /\ \E i \in 2..Len(drawdowns) :
         /\ drawdowns[i - 1].num < 0
         /\ drawdowns[i].num = 0
         /\ prices[i] > prices[1]

\* the bar of instrument c on date d (c has one)
BarOn(c, d) ==
    data[c][CHOOSE k \in 1..Len(data[c]) : data[c][k].trade_date = d]

\* the PE and PB of instrument c at date d: the bar's value, or the
\* placeholder seeded by the instrument code when the data has none
PEOn(c, d) == IF BarOn(c, d).pe = Inf THEN seeded[c].pe ELSE BarOn(c, d).pe

PBOn(c, d) == IF BarOn(c, d).pb = Inf THEN seeded[c].pb ELSE BarOn(c, d).pb

\* a Value run stands right after the selection of the date dates[di]
JustScreened ==
    /\ strategy = "value"
    /\ \/ pc = "buy"
       \/ pc = "record" /\ last_rebalance_date = dates[di]

\* C23: the Value selection of a rebalance date is exactly the set of the
\* instruments with a bar on that date whose PE is <= max_pe and whose PB is
\* <= max_pb (a value equal to its threshold passes); an instrument failing
\* either threshold is never selected.
C23_ValueScreen ==
    JustScreened =>
        /\ Range(selected_stocks) =
             {c \in DOMAIN data :
                /\ HasBarOn(c, dates[di])
                /\ PEOn(c, dates[di]) <= params.max_pe
                /\ PBOn(c, dates[di]) <= params.max_pb}
        /\ Cardinality(Range(selected_stocks)) = Len(selected_stocks)

\* a rebalance selected an instrument whose PE and PB equal the thresholds
\* and passed over an instrument with a bar whose PE is above max_pe
C23_Witness ==
    /\ JustScreened
    /\ pc = "buy"
    /\ \E c \in Range(selected_stocks) :
         /\ BarOn(c, dates[di]).pe = params.max_pe
         /\ BarOn(c, dates[di]).pb = params.max_pb
    /\ \E c \in DOMAIN data \ Range(selected_stocks) :
         /\ HasBarOn(c, dates[di])
         /\ PEOn(c, dates[di]) > params.max_pe
         /\ PBOn(c, dates[di]) <= params.max_pb

\* the call has ended: run_backtest returned or raised
RunEnded == pc \in {"done", "raised"}

\* the input on which run_backtest returns before its date loop
EndsAtOnce ==
    \/ codes = <<>>
    \/ strategy = "momentum" /\ SufficientDates = {}

VisitsInOrder ==
    pc # "not_started" =>
        /\ dates' = dates
        /\ di' \in {di, di + 1}
        /\ di' = di + 1 =>
             \/ pc = "record"
             \/ /\ pc = "date"
                /\ strategy = "momentum"
                /\ dates[di] < start_date

\* how an ended run stands: at once with the error and no date visited, or
\* past the last date of the ascending unified axis with one equity point for
\* each date that was not skipped, returned unless initial_capital is 0
EndState ==
    IF EndsAtOnce
    THEN /\ pc = "done"
         /\ DOMAIN result = {"error"}
         /\ di = 0
    ELSE /\ StrictlyIncreasing(dates)
         /\ Range(dates) = UnionOfDates
         /\ di = Len(dates) + 1
         /\ StrictlyIncreasing(CurveDates)
         /\ Range(CurveDates) =
              {d \in UnionOfDates : strategy = "momentum" => d >= start_date}
         /\ pc = "raised" <=> initial_capital = 0

HistoryOf(c, d) ==
    LET idx == {k \in 1..Len(data[c]) : data[c][k].trade_date <= d}
    IN [k \in 1..Cardinality(idx) |-> data[c][k]]

\* the history of instrument c up to d is shorter than slow_period
ShortHistory(c, d) == ~HasBarsUpTo(c, d, params.slow_period)

\* no transaction of the log is dated on a date at which its instrument's
\* history is short
NoneOnShortHistory(log) ==
    \A k \in 1..Len(log) : ~ShortHistory(log[k].code, log[k].date)

\* C25: in an MA-cross run, at every (instrument, date) at which the
\* instrument's history up to and including the date has fewer than
\* slow_period bars, the signal calculate_signals gives for the date is 0
\* (HOLD), and no BUY or SELL transaction of the instrument is recorded on
\* that date.
C25_ShortHistoryHolds ==
    strategy = "ma" =>
        /\ pc = "trade" =>
             LET c == codes[ii]
                 hist == HistoryOf(c, dates[di])
             IN (hist # <<>> /\ ShortHistory(c, dates[di])) =>
                  Last(calculate_signals(hist, params.fast_period,
                                         params.slow_period)) = 0
        /\ NoneOnShortHistory(daily_transactions)
        /\ NormalResult => NoneOnShortHistory(result.transactions)

\* the second date of an MA-cross run with slow_period 3 has been traded with
\* cash in hand: the instrument's close rose from its first bar to its second
\* and nothing was bought
C25_Witness ==
    /\ strategy = "ma"
    /\ params.slow_period = 3
    /\ pc = "record"
    /\ di = 2
    /\ cash > 0
    /\ \E c \in DOMAIN data :
        /\ Len(data[c]) >= 2
        /\ data[c][2].trade_date = dates[di]
        /\ data[c][1].close < data[c][2].close
    /\ daily_transactions = <<>>

\* between two dates of the loop, or after its last date
AfterDate == pc \in {"date", "done", "raised"}

\* the transaction log so far
LogSoFar == IF NormalResult THEN result.transactions ELSE <<>>

\* the indices of the transactions of the log with the given action (and,
\* below, instrument)
ActionsIn(log, action) == {k \in 1..Len(log) : log[k].action = action}

TradesOf(log, action, c) == {k \in ActionsIn(log, action) : log[k].code = c}

\* the cash the replay of the log gives
ReplayCash(log) ==
    initial_capital
    - SumOver(ActionsIn(log, "buy"),
              [k \in 1..Len(log) |-> log[k].amount + log[k].commission])
    + SumOver(ActionsIn(log, "sell"),
              [k \in 1..Len(log) |-> log[k].amount - log[k].commission])

\* the share count of instrument c the replay of the log gives
ReplayShares(log, c) ==
    SumOver(TradesOf(log, "buy", c), [k \in 1..Len(log) |-> log[k].volume])
    - SumOver(TradesOf(log, "sell", c), [k \in 1..Len(log) |-> log[k].volume])

\* amount = price * volume >= 0 and commission = amount * rate >= 0
WellFormed(t) ==
    /\ t.action \in {"buy", "sell"}
    /\ t.amount = t.price * t.volume * MoneyScale
    /\ t.amount >= 0
    /\ t.commission * CommDen = t.amount * commission
    /\ t.commission >= 0

\* C26: in every run of the three strategies, after every date the ledger
\* equals the replay of the transaction log so far: cash is initial_capital
\* minus the sum of amount + commission over the BUY transactions plus the
\* sum of amount - commission over the SELL transactions, each instrument's
\* share count is the sum of its BUY volumes minus the sum of its SELL
\* volumes, and every transaction has amount = price * volume >= 0 and
\* commission = amount * rate >= 0; so cash and positions do not change on a
\* date without a transaction.
C26_LedgerIsReplay ==
    (ledger_created /\ AfterDate) =>
        /\ cash = ReplayCash(LogSoFar)
        /\ \A c \in Instruments :
             SharesOf(positions, c) = ReplayShares(LogSoFar, c)
        /\ \A k \in 1..Len(LogSoFar) : WellFormed(LogSoFar[k])

\* a run with a positive commission rate has returned after buying and
\* selling, on different dates
C26_Witness ==
    /\ pc = "done"
    /\ NormalResult
    /\ commission > 0
    /\ \E j, k \in 1..Len(result.transactions) :
        /\ result.transactions[j].action = "buy"
        /\ result.transactions[k].action = "sell"
        /\ result.transactions[j].date < result.transactions[k].date

\* every instrument's close is the same on all its bars
FlatPrices ==
    \A c \in DOMAIN data : \A i, j \in 1..Len(data[c]) :
        data[c][i].close = data[c][j].close

\* the transactions of the log dated on or before d
UpTo(log, d) == SelectSeq(log, LAMBDA t : t.date <= d)

\* every instrument held at the end of date d, by the log, has a bar on d
HeldHaveBars(log, d) ==
    \A c \in DOMAIN data : ReplayShares(UpTo(log, d), c) > 0 => HasBarOn(c, d)

\* the commissions of the transactions of the log dated on or before d
CommissionsUpTo(log, d) ==
    SumOver({k \in 1..Len(log) : log[k].date <= d},
            [k \in 1..Len(log) |-> log[k].commission])

\* every held instrument has a bar on every date of the equity curve
AlwaysPriced ==
    \A k \in 1..Len(result.returns) :
        HeldHaveBars(result.transactions, result.returns[k].date)

\* C27: in every run of the three strategies on flat prices (each
\* instrument's close the same on all its bars), the equity-curve value of a
\* date on which every held instrument has a bar is initial_capital minus the
\* commissions of all transactions dated on or before that date; when that
\* is so on every date the curve is non-increasing and, with commission 0,
\* constantly initial_capital.
C27_FlatPricesLoseCommissions ==
    (NormalResult /\ AfterDate /\ FlatPrices) =>
        /\ \A k \in 1..Len(result.returns) :
             HeldHaveBars(result.transactions, result.returns[k].date) =>
                result.returns[k].value =
                   initial_capital
                   - CommissionsUpTo(result.transactions,
                                     result.returns[k].date)
        /\ AlwaysPriced =>
             /\ \A j, k \in 1..Len(result.returns) :
                  j < k => result.returns[k].value <= result.returns[j].value
             /\ commission = 0 =>
                  \A k \in 1..Len(result.returns) :
                     result.returns[k].value = initial_capital

\* a run on flat prices with a positive commission rate has returned: it
\* bought on one date and sold on a later one, whatever is held has a bar on
\* every date, and the curve has fallen
C27_Witness ==
    /\ pc = "done"
    /\ NormalResult
    /\ FlatPrices
    /\ AlwaysPriced
    /\ commission > 0
    /\ HasAction(result.transactions, "buy")
    /\ HasAction(result.transactions, "sell")
    /\ Len(result.returns) >= 2
    /\ Last(result.returns).value < result.returns[1].value

\* the dates of the position snapshots, in snapshot order
SnapshotDates ==
    [k \in 1..Len(result.positions) |-> result.positions[k].date]

NonDecreasing(s) == \A i, j \in 1..Len(s) : i < j => s[i] <= s[j]

\* the dates of the axis whose processing has ended: those before the
\* current one, without the dates a Momentum run skips
ProcessedDates ==
    {dates[k] : k \in {j \in 1..(di - 1) :
                         strategy = "momentum" => dates[j] >= start_date}}

\* C28: in every result without an error field the equity curve and the
\* position snapshots have the same length and the same date at every index,
\* the dates of the transaction log are non-decreasing in log order, and
\* every transaction's date is a date of the equity curve; there is exactly
\* one equity point and one snapshot for each processed date, whether or not
\* a trade happened on it.
C28_CurveSnapshotsLog ==
    (NormalResult /\ AfterDate) =>
        /\ SnapshotDates = CurveDates
        /\ NonDecreasing([k \in 1..Len(result.transactions) |->
                             result.transactions[k].date])
        /\ \A k \in 1..Len(result.transactions) :
             result.transactions[k].date \in Range(CurveDates)
        /\ Range(CurveDates) = ProcessedDates
        /\ Len(CurveDates) = Cardinality(ProcessedDates)

\* a returned result with two transactions on one date, a transaction on a
\* later date and a date without any transaction
C28_Witness ==
    /\ pc = "done"
    /\ NormalResult
    /\ \E i, j, k \in 1..Len(result.transactions) :
        /\ i < j /\ j < k
        /\ result.transactions[i].date = result.transactions[j].date
        /\ result.transactions[j].date < result.transactions[k].date
    /\ \E d \in Range(CurveDates) :
        \A k \in 1..Len(result.transactions) : result.transactions[k].date # d

\* the bars of the frame with the given signal
BarsWith(signal) == {i \in 1..Len(frame) : frame[i].signal = signal}

\* between any two bars with the signal s there is a bar with the signal t
Separated(s, t) ==
    \A a, b \in BarsWith(s) :
        a < b => \E m \in BarsWith(t) : a < m /\ m < b

\* C29 as stated in the specification: over the bars of any price series the
\* BUY and SELL signals of calculate_signals strictly alternate: between two
\* BUY bars there is a SELL bar and between two SELL bars there is a BUY bar.
C29_Original ==
    pc = "signals_done" => (Separated(1, -1) /\ Separated(-1, 1))

\* the cash at the start of the date being processed: the cash of the last
\* snapshot, initial_capital on the first date
CashAtStart ==
    IF result.positions = <<>> THEN initial_capital
    ELSE Last(result.positions).cash

\* what a transaction adds to the cash
CashChange(t) ==
    IF t.action = "buy" THEN 0 - (t.amount + t.commission)
    ELSE t.amount - t.commission

\* the cash left when the k-th transaction of the date is made, after the
\* date's earlier sells and buys
CashBefore(k) ==
    CashAtStart
    + SumOver(1..(k - 1),
              [j \in 1..Len(daily_transactions) |->
                 CashChange(daily_transactions[j])])

\* the cash left when the k-th transaction of the date is made, counting the
\* date's earlier buys only
CashAfterBuys(k) ==
    CashAtStart
    - SumOver({j \in 1..(k - 1) : daily_transactions[j].action = "buy"},
              [j \in 1..Len(daily_transactions) |->
                 daily_transactions[j].amount
                 + daily_transactions[j].commission])

\* v is the largest whole number of lots at price p that 0.95 of c pays for
LargestFor(v, p, c) ==
    /\ v % LotSize = 0
    /\ PriceOfShares(v, p) <= Pct(c, 95)
    /\ PriceOfShares(v + LotSize, p) > Pct(c, 95)

\* the position of an instrument in the key order of the input mapping
KeyIndex(c) == CHOOSE i \in 1..Len(codes) : codes[i] = c

\* the transactions of the date follow the order of the input mapping
InMappingOrder ==
    \A j, k \in 1..Len(daily_transactions) :
        j < k => KeyIndex(daily_transactions[j].code)
                   < KeyIndex(daily_transactions[k].code)

DayBuys == {k \in 1..Len(daily_transactions) :
              daily_transactions[k].action = "buy"}

DaySells == {k \in 1..Len(daily_transactions) :
               daily_transactions[k].action = "sell"}

\* what the buys of the date spent and what its sells brought in
DaySpent ==
    SumOver(DayBuys, [k \in 1..Len(daily_transactions) |->
                        daily_transactions[k].amount
                        + daily_transactions[k].commission])

DayProceeds ==
    SumOver(DaySells, [k \in 1..Len(daily_transactions) |->
                         daily_transactions[k].amount
                         - daily_transactions[k].commission])

\* a date of an MA-cross run is being processed
TradingDate == strategy = "ma" /\ pc \in {"trade", "record"}

\* C30 as stated in the specification: when several instruments are bought on
\* one date, the buys are made in the order of the input mapping, each sized on 0.95 of the cash at the start of
\* the date less what the earlier buys of the date cost, and the total spent
\* on the date never exceeds the cash at the start of the date.
C30_Original ==
    (TradingDate /\ Cardinality(DayBuys) >= 2) =>
        /\ InMappingOrder
        /\ \A k \in DayBuys :
             LargestFor(daily_transactions[k].volume,
                        daily_transactions[k].price, CashAfterBuys(k))
        /\ DaySpent <= CashAtStart

\* C30 (amended): in an MA-cross run the instruments are processed on each
\* date in the order of the input mapping, and each buy is sized on 0.95 of
\* the cash left at that moment: the cash at the start of the date plus the
\* proceeds of the sells made earlier on the date (by instruments earlier in
\* the mapping) less the cost of the date's earlier buys.  The total spent on
\* the date never exceeds the cash at the start of the date plus the proceeds
\* of the date's sells; when no sell precedes a buy on the date, the first
\* buy's budget is 0.95 of the cash at the start of the date and the total
\* spent does not exceed that cash.
C30_BuysInMappingOrder ==
    TradingDate =>
        /\ InMappingOrder
        /\ cash = CashBefore(Len(daily_transactions) + 1)
        /\ \A k \in DayBuys :
             LargestFor(daily_transactions[k].volume,
                        daily_transactions[k].price, CashBefore(k))
        /\ DaySpent <= CashAtStart + DayProceeds
        /\ DaySells = {} =>
             /\ DaySpent <= CashAtStart
             /\ \A k \in DayBuys :
                  LargestFor(daily_transactions[k].volume,
                             daily_transactions[k].price, CashAfterBuys(k))

\* on one date the first instrument of the mapping was sold and the second
\* and the third were bought, the third on what the second left
C30_Witness ==
    /\ TradingDate
    /\ Len(daily_transactions) = 3
    /\ daily_transactions[1].action = "sell"
    /\ daily_transactions[2].action = "buy"
    /\ daily_transactions[3].action = "buy"
    /\ DaySpent > CashAtStart

====
